---- MODULE Spec2Model ----
(***************************************************************************)
(* State-machine model of the EQ-Overlay log ingestion and spell/timer     *)
(* correlation engine: TimerManager (timer registry), TimerPanel           *)
(* (_process_log_entry, _check_cast_on_other), SpellDatabase (indices and  *)
(* best_match), LogParser (parse_chat_message) and LogWatcher              *)
(* (load_raw_history / load_chat_history_since).                           *)
(*                                                                         *)
(* Strings that the code inspects structurally (log messages, catalog      *)
(* templates, target names) are sequences of tokens, so that endswith,     *)
(* slicing and equality are computed as the code computes them.  Wall      *)
(* clock (datetime.now()) and log timestamps are whole seconds.            *)
(***************************************************************************)
EXTENDS Integers, Sequences, FiniteSets, TLC

VARIABLES
    \* ---- TimerManager
    timers,               \* TimerManager._timers : (spell_name, target) -> ActiveTimer
    reg_op,               \* the last TimerManager call made directly (history)
    \* ---- TimerPanel
    now,                  \* datetime.now(), seconds
    pending_cast,         \* TimerPanel._pending_cast : <<>> (None) or <<PendingCast>>
    last_entry_was_cast,  \* TimerPanel._last_entry_was_cast
    learned_items,        \* TimerPanel._learned_items : item -> spell name ("" = none)
    item_cast_times,      \* TimerPanel._item_cast_times : item -> ms (0 = absent)
    disk_items,           \* learned_items.json : item -> [spell_name, cast_times_ms]
    combat,               \* the DPS state of TimerPanel
    last_timestamp,       \* LogWatcher._last_timestamp: log time of the last entry
    res,                  \* what that call did: the handler's locals (history)
    qt_pc,                \* the GUI thread inside _end_combat: "idle" or "emitted"
    ended_snapshots,      \* dps_updated emissions with ended=true, this session (history)
    \* ---- LogParser
    pending_roller,       \* LogParser._pending_roller ("" = None)
    last_was_die_roll,    \* LogParser._last_was_die_roll
    chat_last,            \* the entry parse_chat_message was last called with (history)
    chat_out,             \* what the last call returned: <<>> (None) or <<ChatMessage>>
    \* ---- LogWatcher history scan
    file,                 \* the log file: a sequence of lines [len, ts]
    chunk_size,           \* chunk_size of the backward scan, bytes
    cutoff,               \* the cutoff timestamp
    scan_pc,              \* position of the scan: "back", "fwd", "done"
    end_pos,              \* end_pos of the backward loop
    start_read_pos,       \* start_read_pos
    entries,              \* the entries the scan returns
    \* ---- LogWatcher.load_chat_history
    max_channel_msgs,     \* max_channel_msgs
    max_dm_convos,        \* max_dm_convos
    channel_counts,       \* channel_counts : channel -> messages kept
    dm_conversations,     \* dm_conversations : the tell partners kept
    messages,             \* messages, newest first until the final reverse
    \* ---- DurationFormula
    dur_args,             \* the arguments of calculate: [formula, base, level]
    dur_ret,              \* what calculate returned, -1 before the call
    \* ---- LogWatcher.watch and the thread that runs it
    log_size,             \* lines the game has written to the log file
    replayed,             \* the lines the history backfill delivered
    watch_pc,             \* position of the watcher thread in watch()
    running,              \* LogWatcher._running
    stop_requested,       \* stop() was called (history)
    watch_pos,            \* f.tell() of the live tail, in lines
    cur_line,             \* the line read and not yet through the pipeline, 0 = none
    delivered,            \* the lines handed to the entry callbacks, in order
    classified,           \* the lines handed to the chat classifier, in order
    \* ---- ConversationManager
    conversations,        \* ConversationManager._conversations : id -> messages
    store_op,             \* the last add_message / prepend_message call (history)
    \* ---- TimerPanel.load_history against the live path
    replay_log,           \* the entries of the log, in file order
    replay_pos,           \* how many of them the live path has processed
    history_timers,       \* the registry load_history builds from them, <<>> before
    \* ---- SpellDatabase
    spells_file,          \* the records of spells_us.txt, in file order
    whitelist,            \* SpellDatabase._whitelist : <<>> (None) or <<names>>
    db,                   \* the tables of SpellDatabase
    \* ---- SpellDatabase.best_match
    bm_args,              \* the arguments of best_match: [spells, prefer_name]
    bm_ret,               \* what best_match returned, <<"pending">> before the call
    \* ---- LogParser.parse_who
    who_lines,            \* LogParser._who_lines
    who_timestamp,        \* LogParser._who_timestamp, -1 = None
    who_last,             \* the entry parse_who was last called with (history)
    who_out,              \* what that call returned: <<>> (None) or <<ChatMessage>>
    \* ---- TimerPanel._on_update on the GUI thread, statement by statement
    ui_pc,                \* where _on_update stands
    ui_keys,              \* the keys of the dict when the iteration began
    ui_left,              \* the keys the iteration has still to yield
    ui_to_remove,         \* check_expired's to_remove
    ui_error              \* the exception _on_update ended with, "" = none

panel_vars  == <<now, pending_cast, last_entry_was_cast, learned_items,
                 item_cast_times, disk_items, combat, last_timestamp, res>>
parser_vars == <<pending_roller, last_was_die_roll, chat_last, chat_out>>
scan_vars   == <<file, chunk_size, cutoff, scan_pc, end_pos, start_read_pos, entries>>
qt_vars     == <<qt_pc, ended_snapshots>>
count_vars  == <<max_channel_msgs, max_dm_convos, channel_counts, dm_conversations,
                 messages>>
duration_vars == <<dur_args, dur_ret>>
watch_vars  == <<log_size, replayed, watch_pc, running, stop_requested, watch_pos,
                 cur_line, delivered, classified>>
store_vars  == <<conversations, store_op>>
replay_vars == <<replay_log, replay_pos, history_timers>>
catalog_vars == <<spells_file, whitelist, db>>
match_vars  == <<bm_args, bm_ret>>
who_vars    == <<who_lines, who_timestamp, who_last, who_out>>
ui_vars     == <<ui_pc, ui_keys, ui_left, ui_to_remove, ui_error>>
ext_vars    == <<watch_vars, store_vars, replay_vars, catalog_vars, match_vars, who_vars,
                 ui_vars>>
vars        == <<timers, reg_op, panel_vars, parser_vars, scan_vars, qt_vars, count_vars,
                 duration_vars, ext_vars>>

-----------------------------------------------------------------------------
(* Bounds of the model *)

MaxTime == 1         \* the wall clock and the log timestamps run over 0..MaxTime
MaxEnd == 3          \* end times of the timers handed to TimerManager.add directly
MaxLines == 3        \* lines of a log file given to the history scan
MaxChunk == 3        \* chunk sizes of the history scan, in bytes

(* Configuration values (config.json) *)

CastWindow == 1      \* timers.cast_window_seconds
Level == 1           \* character.default_level

-----------------------------------------------------------------------------
(* Small helpers *)

Max(a, b) == IF a >= b THEN a ELSE b

Min(a, b) == IF a <= b THEN a ELSE b

\* str.endswith
EndsWith(msg, suffix) ==
    /\ Len(suffix) <= Len(msg)
    /\ SubSeq(msg, Len(msg) - Len(suffix) + 1, Len(msg)) = suffix

RECURSIVE Dedup(_)
\* the keys of a dict filled in the order of s: first occurrences, in order
Dedup(s) ==
    IF s = <<>> THEN <<>>
    ELSE LET front == Dedup(SubSeq(s, 1, Len(s) - 1))
             x == s[Len(s)]
         IN IF \E i \in 1..Len(front) : front[i] = x THEN front ELSE Append(front, x)

-----------------------------------------------------------------------------
(* DurationFormula (core/duration.py) *)

SECONDS_PER_TICK == 6

PERMANENT_TICKS == 72000

CeilDiv(a, b) == (a + b - 1) \div b

Capped(ticks, base) == IF base > 0 THEN Min(ticks, base) ELSE ticks

\* a tick count that caps formulas 9 and 10 at the base also above 60
GetTicksAlwaysCapped(formula, base, level) ==
    CASE formula = 0 -> 0
      [] formula \in {1, 6} -> Capped(CeilDiv(level, 2), base)
      [] formula = 2 -> Capped(CeilDiv(level * 3, 5), base)
      [] formula = 3 -> Capped(level * 30, base)
      [] formula = 4 -> IF base > 0 THEN base ELSE 50
      [] formula = 5 -> IF base > 0 THEN base ELSE 3
      [] formula = 7 -> Capped(level, base)
      [] formula = 8 -> Capped(level + 10, base)
      [] formula = 9 -> Capped(level * 2 + 10, base)
      [] formula = 10 -> Capped(level * 3 + 10, base)
      [] formula \in {11, 12, 15} -> base
      [] formula = 50 -> PERMANENT_TICKS
      [] formula = 3600 -> IF base > 0 THEN base ELSE 3600
      [] OTHER -> base

GetTicks(formula, base, level) ==
    CASE formula = 0 -> 0
      [] formula \in {1, 6} -> Capped(CeilDiv(level, 2), base)
      [] formula = 2 -> Capped(CeilDiv(level * 3, 5), base)
      [] formula = 3 -> Capped(level * 30, base)
      [] formula = 4 -> IF base > 0 THEN base ELSE 50
      [] formula = 5 -> IF base > 0 THEN base ELSE 3
      [] formula = 7 -> Capped(level, base)
      [] formula = 8 -> Capped(level + 10, base)
      [] formula = 9 -> IF base > 60 THEN base ELSE Capped(level * 2 + 10, base)
      [] formula = 10 -> IF base > 60 THEN base ELSE Capped(level * 3 + 10, base)
      [] formula \in {11, 12, 15} -> base
      [] formula = 50 -> PERMANENT_TICKS
      [] formula = 3600 -> IF base > 0 THEN base ELSE 3600
      [] OTHER -> base

Calculate(formula, base, level) == GetTicks(formula, base, level) * SECONDS_PER_TICK

-----------------------------------------------------------------------------
(* SpellDatabase *)

You == <<"You">>

\* The records of spells_us.txt, in file order.  Z has no duration; Z and A share
\* one cast-on-you message; the cast-on-other suffix of Z is a suffix of the one
\* of A; O was superseded in Kunark and is filtered out of the indices.
AllSpells == <<
    [id |-> 1, name |-> "Z", cast_on_you |-> <<"y">>, cast_on_other |-> <<"s">>,
     spell_fades |-> <<>>, duration_formula |-> 0, duration_base |-> 0,
     beneficial |-> TRUE, replaced_by |-> 0, replacement_expansion |-> ""],
    [id |-> 2, name |-> "O", cast_on_you |-> <<"y">>, cast_on_other |-> <<"b", "t", "s">>,
     spell_fades |-> <<"f">>, duration_formula |-> 5, duration_base |-> 0,
     beneficial |-> TRUE, replaced_by |-> 9, replacement_expansion |-> "Kunark"],
    [id |-> 3, name |-> "A", cast_on_you |-> <<"y">>, cast_on_other |-> <<"t", "s">>,
     spell_fades |-> <<"f">>, duration_formula |-> 7, duration_base |-> 0,
     beneficial |-> TRUE, replaced_by |-> 0, replacement_expansion |-> ""] >>

P99_EXPANSIONS == {"Classic", "Kunark", "Velious", "Hole", ""}

\* SpellDatabase._is_valid_for_p99, no whitelist file configured
IsValidForP99(spell) ==
    IF spell.replaced_by = 0 THEN TRUE
    ELSE IF spell.replacement_expansion \in P99_EXPANSIONS THEN FALSE
    ELSE TRUE

\* the spells the indexing loop of _load keeps, in order
ValidSpells == SelectSeq(AllSpells, IsValidForP99)

\* SpellDatabase.find_by_cast_on_you: _by_cast_on_you.get(message, [])
FindByCastOnYou(msg) ==
    SelectSeq(ValidSpells, LAMBDA s : s.cast_on_you # <<>> /\ s.cast_on_you = msg)

\* SpellDatabase.find_by_fades: _by_fades.get(message, [])
FindByFades(msg) ==
    SelectSeq(ValidSpells, LAMBDA s : s.spell_fades # <<>> /\ s.spell_fades = msg)

\* the keys of _by_cast_on_other, in insertion order
CastOnOtherSuffixes ==
    Dedup([i \in 1..Len(SelectSeq(ValidSpells, LAMBDA s : s.cast_on_other # <<>>)) |->
              SelectSeq(ValidSpells, LAMBDA s : s.cast_on_other # <<>>)[i].cast_on_other])

\* a lookup that gives the candidates of every suffix
ByCastOnOtherAll(suffix) == ValidSpells

\* _by_cast_on_other[suffix]
ByCastOnOther(suffix) ==
    SelectSeq(ValidSpells, LAMBDA s : s.cast_on_other = suffix)

\* SpellInfo.has_duration
HasDuration(s) == ~(s.duration_formula = 0 /\ s.duration_base = 0)

\* SpellInfo.get_duration_seconds
GetDurationSeconds(s, level) == Calculate(s.duration_formula, s.duration_base, level)

\* SpellDatabase.best_match: <<>> is None, prefer_name "" is None
BestMatch(spells, prefer_name) ==
    IF spells = <<>> THEN <<>>
    ELSE IF prefer_name # "" /\ \E i \in 1..Len(spells) : spells[i].name = prefer_name
    THEN <<SelectSeq(spells, LAMBDA s : s.name = prefer_name)[1]>>
    ELSE IF SelectSeq(spells, HasDuration) # <<>>
    THEN <<SelectSeq(spells, HasDuration)[1]>>
    ELSE <<spells[1]>>

-----------------------------------------------------------------------------
(* TimerManager *)

ActiveTimer(spell_name, target, end_time, total_duration, category) ==
    [spell_name |-> spell_name, target |-> target, end_time |-> end_time,
     total_duration |-> total_duration, category |-> category]

TimerKey(t) == <<t.spell_name, t.target>>

\* a later add with an equal or later end time also replaces
TimerAddNoLater(reg, t) ==
    [k \in DOMAIN reg \cup {TimerKey(t)} |->
        IF k = TimerKey(t)
        THEN IF k \in DOMAIN reg /\ ~(t.end_time >= reg[k].end_time) THEN reg[k] ELSE t
        ELSE reg[k]]

\* TimerManager.add
TimerAdd(reg, t) ==
    LET key == TimerKey(t)
    IN IF key \in DOMAIN reg
       THEN IF t.end_time > reg[key].end_time
            THEN [k \in DOMAIN reg |-> IF k = key THEN t ELSE reg[k]]
            ELSE reg
       ELSE [k \in DOMAIN reg \cup {key} |-> IF k = key THEN t ELSE reg[k]]

\* a remove that drops the spell's timers on every target
TimerRemoveOnAnyTarget(reg, spell_name, target) ==
    [k \in {x \in DOMAIN reg : x[1] # spell_name} |-> reg[k]]

\* TimerManager.remove
TimerRemove(reg, spell_name, target) ==
    [k \in DOMAIN reg \ {<<spell_name, target>>} |-> reg[k]]

\* TimerManager.remove_all_for_target
TimerRemoveAllForTarget(reg, target) ==
    [k \in {x \in DOMAIN reg : x[2] # target} |-> reg[k]]

\* TimerManager.clear
TimerClear(reg) == [k \in {} |-> 0]

\* an expiry test that spares the timer ending at this instant
IsExpiredStrict(t, clock) == clock > t.end_time

\* ActiveTimer.is_expired
IsExpired(t, clock) == clock >= t.end_time

\* TimerManager.check_expired: the registry it leaves
CheckExpired(reg, clock) ==
    [k \in {x \in DOMAIN reg : ~IsExpired(reg[x], clock)} |-> reg[k]]

\* TimerManager.check_expired: the list it returns.  The clock does not move
\* during the call.
ExpiredTimers(reg, clock) ==
    LET expired == {reg[k] : k \in {x \in DOMAIN reg : IsExpired(reg[x], clock)}}
    IN CHOOSE s \in [1..Cardinality(expired) -> expired] :
          {s[i] : i \in 1..Cardinality(expired)} = expired

EmptyRegistry == [k \in {} |-> 0]

-----------------------------------------------------------------------------
(* Log entries.  A message is [kind, name, text]: kind is the fixed pattern   *)
(* of LogParser the message matches ("other" when none), name the group the  *)
(* pattern captures, text the message as the catalog lookups see it.         *)

Msg(kind, name, text) ==
    [kind |-> kind, name |-> name, text |-> text, target |-> "", amount |-> 0]

LogEntry(timestamp, message) == [timestamp |-> timestamp, message |-> message]

Items == {"I1"}

\* LogParser.is_blacklisted
IsBlacklisted(m) == m.kind = "blacklisted"

\* LogParser.is_death
IsDeath(m) == m.kind = "death"

\* LogParser.is_cast_failure
IsCastFailure(m) == m.kind = "cast_failure"

\* LogParser.parse_casting: the spell name, "" for None
ParseCasting(m) == IF m.kind = "casting" THEN m.name ELSE ""

\* LogParser.parse_item_glow: the item name, "" for None
ParseItemGlow(m) == IF m.kind = "item_glow" THEN m.name ELSE ""

\* LogParser.parse_spell_worn_off: the spell name, "" for None
ParseSpellWornOff(m) == IF m.kind = "worn_off" THEN m.name ELSE ""

\* LogParser.is_buff_warning
IsBuffWarning(m) == m.kind = "buff_warning"

-----------------------------------------------------------------------------
(* TimerPanel: the state _process_log_entry works on, as one record, and     *)
(* the handler's locals that the properties read (message .. attached).     *)

PendingCast(spell_name, cast_time, log_timestamp, item_name) ==
    [spell_name |-> spell_name, cast_time |-> cast_time,
     log_timestamp |-> log_timestamp, item_name |-> item_name]

NoCombat == [active |-> FALSE, start |-> -1, damage |-> [k \in {} |-> 0],
             targets |-> {}, last_damage_time |-> -1]

NoRes == [message |-> Msg("none", "", <<>>), is_self_cast |-> FALSE, spell |-> "", timer |-> <<>>,
          matched_at |-> 0, last_examined |-> 0, raised |-> FALSE, dps |-> <<>>,
          prev_item |-> "", attached |-> FALSE]

PanelState ==
    [pending_cast |-> pending_cast, last_entry_was_cast |-> last_entry_was_cast,
     timers |-> timers, learned_items |-> learned_items,
     item_cast_times |-> item_cast_times, disk_items |-> disk_items,
     combat |-> combat,
     res |-> [NoRes EXCEPT !.prev_item =
                 IF pending_cast = <<>> THEN "" ELSE pending_cast[1].item_name]]

\* a save that writes what is in memory over the file
SaveLearnedItemsOverwrite(st) ==
    [st EXCEPT !.disk_items =
        [it \in Items |->
            [spell_name |-> st.learned_items[it],
             cast_times_ms |->
                [ms \in {st.item_cast_times[it]} \ {0} |-> 1]]]]

\* TimerPanel._save_learned_items: merge into the file and write it
SaveLearnedItems(st) ==
    [st EXCEPT !.disk_items =
        [it \in Items |->
            [spell_name |->
                IF st.disk_items[it].spell_name # "" THEN st.disk_items[it].spell_name
                ELSE st.learned_items[it],
             cast_times_ms |->
                IF st.item_cast_times[it] = 0 THEN st.disk_items[it].cast_times_ms
                ELSE [ms \in DOMAIN st.disk_items[it].cast_times_ms \cup
                                {st.item_cast_times[it]} |->
                        IF ms = st.item_cast_times[it]
                        THEN (IF ms \in DOMAIN st.disk_items[it].cast_times_ms
                              THEN st.disk_items[it].cast_times_ms[ms] ELSE 0) + 1
                        ELSE st.disk_items[it].cast_times_ms[ms]]]]]

\* TimerPanel._learn_item_spell
LearnItemSpell(st, item_name, spell_name) ==
    IF st.learned_items[item_name] = ""
    THEN SaveLearnedItems([st EXCEPT !.learned_items[item_name] = spell_name])
    ELSE st

\* learning the cast time of an item: elapsed wall clock, rounded to the second
LearnCastTime(st, item_name, cast_start, clock) ==
    LET rounded_ms == (clock - cast_start) * 1000
    IN IF rounded_ms > 0 THEN [st EXCEPT !.item_cast_times[item_name] = rounded_ms]
       ELSE st

\* a lookup that knows no item
GetItemSpellNameUnknown(st, item_name) == ""

\* TimerPanel._get_item_spell_name: "" for None
GetItemSpellName(st, item_name) == st.learned_items[item_name]

\* TimerPanel._emit_dps
EmitDps(st, final, clock) ==
    IF st.combat.start = -1 THEN st
    ELSE [st EXCEPT !.res.dps =
            <<[active |-> ~final, ended |-> final,
               num_targets |-> Cardinality(st.combat.targets),
               duration |-> clock - st.combat.start,
               damage |-> st.combat.damage]>>]

\* an add-damage that starts a session on top of the last session's totals
AddDamageCarryOver(st, player, amount, target, clock) ==
    LET c0 == IF ~st.combat.active
              THEN [st.combat EXCEPT !.active = TRUE, !.start = clock]
              ELSE st.combat
        c1 == IF target # "" THEN [c0 EXCEPT !.targets = @ \cup {target}] ELSE c0
        c2 == [c1 EXCEPT !.damage =
                 [k \in DOMAIN c1.damage \cup {player} |->
                    IF k = player
                    THEN (IF k \in DOMAIN c1.damage THEN c1.damage[k] ELSE 0) + amount
                    ELSE c1.damage[k]],
               !.last_damage_time = clock]
    IN EmitDps([st EXCEPT !.combat = c2], FALSE, clock)

\* TimerPanel._add_damage
AddDamage(st, player, amount, target, clock) ==
    LET c0 == IF ~st.combat.active
              THEN [st.combat EXCEPT !.active = TRUE, !.start = clock,
                                     !.damage = [k \in {} |-> 0], !.targets = {}]
              ELSE st.combat
        c1 == IF target # "" THEN [c0 EXCEPT !.targets = @ \cup {target}] ELSE c0
        c2 == [c1 EXCEPT !.damage =
                 [k \in DOMAIN c1.damage \cup {player} |->
                    IF k = player
                    THEN (IF k \in DOMAIN c1.damage THEN c1.damage[k] ELSE 0) + amount
                    ELSE c1.damage[k]],
               !.last_damage_time = clock]
    IN EmitDps([st EXCEPT !.combat = c2], FALSE, clock)

\* TimerPanel._end_combat
EndCombat(st, clock) ==
    IF st.combat.active
    THEN LET s1 == EmitDps(st, TRUE, clock)
         IN [s1 EXCEPT !.combat.active = FALSE, !.combat.last_damage_time = -1]
    ELSE st

-----------------------------------------------------------------------------
(* TimerPanel._process_log_entry, handler by handler *)

\* the window test with the boundary inside the window
WithinCastWindowInclusive(elapsed) == elapsed <= CastWindow

\* elapsed < cast_window_seconds
WithinCastWindow(elapsed) == elapsed < CastWindow

\* a candidate test that accepts any non-empty candidate list
HasSpellNamedAny(spells, name) == spells # <<>>

\* for s in spells: if s.name == self._pending_cast.spell_name
HasSpellNamed(spells, name) == \E i \in 1..Len(spells) : spells[i].name = name

\* a cast begin that keeps the item of the pending cast it replaces
HandleCastingKeepItem(st, e, clock, spell_name) ==
    [st EXCEPT !.pending_cast =
                  <<PendingCast(spell_name, clock, e.timestamp,
                                IF st.pending_cast = <<>> THEN ""
                                ELSE st.pending_cast[1].item_name)>>,
               !.last_entry_was_cast = TRUE]

\* "You begin casting X."
HandleCasting(st, e, clock, spell_name) ==
    [st EXCEPT !.pending_cast = <<PendingCast(spell_name, clock, e.timestamp, "")>>,
               !.last_entry_was_cast = TRUE]

\* an item glow that attaches to any pending cast without an item
HandleItemGlowNoAdjacency(st, e, clock, item_name, prev_was_cast) ==
    LET s1 == IF st.pending_cast # <<>> /\ st.pending_cast[1].item_name = ""
              THEN [st EXCEPT !.pending_cast[1].item_name = item_name,
                              !.res.attached = TRUE]
              ELSE st
        s2 == IF s1.pending_cast = <<>> /\ GetItemSpellName(s1, item_name) # ""
              THEN [s1 EXCEPT !.pending_cast =
                      <<PendingCast(GetItemSpellName(s1, item_name), clock,
                                    e.timestamp, item_name)>>]
              ELSE s1
    IN s2

\* "Your X begins to glow."
HandleItemGlow(st, e, clock, item_name, prev_was_cast) ==
    LET s1 == IF st.pending_cast # <<>> /\ st.pending_cast[1].item_name = ""
                 /\ prev_was_cast
              THEN [st EXCEPT !.pending_cast[1].item_name = item_name,
                              !.res.attached = TRUE]
              ELSE st
        s2 == IF s1.pending_cast = <<>> /\ GetItemSpellName(s1, item_name) # ""
              THEN [s1 EXCEPT !.pending_cast =
                      <<PendingCast(GetItemSpellName(s1, item_name), clock,
                                    e.timestamp, item_name)>>]
              ELSE s1
    IN s2

RECURSIVE RemoveAllOnYou(_, _)
\* for spell in fades_list: self._timer_mgr.remove(spell.name, "You")
RemoveAllOnYou(reg, spells) ==
    IF spells = <<>> THEN reg
    ELSE RemoveAllOnYou(TimerRemove(reg, spells[1].name, You), Tail(spells))

\* a landing on you that is always filed as a self buff
LandingCategoryAlwaysSelf(is_self_cast) == "SELF_BUFF"

\* TimerCategory.SELF_BUFF if is_self_cast else TimerCategory.RECEIVED_BUFF
LandingCategory(is_self_cast) == IF is_self_cast THEN "SELF_BUFF" ELSE "RECEIVED_BUFF"

\* the spell landed on you: spells is the non-empty candidate list
HandleCastOnYou(st, e, clock, spells) ==
    LET p == st.pending_cast[1]
        is_self_cast ==
            /\ st.pending_cast # <<>>
            /\ WithinCastWindow(e.timestamp - p.log_timestamp)
            /\ HasSpellNamed(spells, p.spell_name)
        prefer_name == IF is_self_cast THEN p.spell_name ELSE ""
        item_name == IF is_self_cast THEN p.item_name ELSE ""
        s1 == IF is_self_cast THEN [st EXCEPT !.pending_cast = <<>>] ELSE st
        s2 == IF item_name # "" THEN LearnCastTime(s1, item_name, p.cast_time, clock)
              ELSE s1
        spell == BestMatch(spells, prefer_name)[1]
        s3 == IF item_name # "" THEN LearnItemSpell(s2, item_name, spell.name) ELSE s2
        duration == GetDurationSeconds(spell, Level)
        timer == ActiveTimer(spell.name, You, clock + duration, duration,
                             LandingCategory(is_self_cast))
        s4 == IF duration > 0
              THEN [s3 EXCEPT !.timers = TimerAdd(@, timer), !.res.timer = <<timer>>]
              ELSE s3
    IN [s4 EXCEPT !.res.is_self_cast = is_self_cast, !.res.spell = spell.name]

RECURSIVE CheckCastOnOtherFrom(_, _, _, _)
\* TimerPanel._check_cast_on_other: the loop over _by_cast_on_other, from suffix i.
\* A zero duration continues the loop with the pending cast already cleared, and
\* the next suffix the message ends with reads self._pending_cast.cast_time of None.
CheckCastOnOtherFrom(st, msg, clock, i) ==
    IF i > Len(CastOnOtherSuffixes) THEN st
    ELSE
    LET suffix == CastOnOtherSuffixes[i]
        spells == ByCastOnOther(suffix)
        target == SubSeq(msg, 1, Len(msg) - Len(suffix))
        s0 == [st EXCEPT !.res.last_examined = i]
    IN
    IF suffix = <<>> \/ ~EndsWith(msg, suffix)
    THEN CheckCastOnOtherFrom(s0, msg, clock, i + 1)
    ELSE IF target = <<>> \/ target[1] = " "
    THEN CheckCastOnOtherFrom(s0, msg, clock, i + 1)
    ELSE IF s0.pending_cast = <<>>
    THEN [s0 EXCEPT !.res.raised = TRUE]
    ELSE
    LET p == s0.pending_cast[1]
        prefer == IF WithinCastWindow(clock - p.cast_time)
                     /\ HasSpellNamed(spells, p.spell_name)
                  THEN p.spell_name ELSE ""
    IN
    IF prefer = ""
    THEN CheckCastOnOtherFrom(s0, msg, clock, i + 1)
    ELSE
    LET s1 == [s0 EXCEPT !.pending_cast = <<>>,
                         !.res.matched_at = IF @ = 0 THEN i ELSE @]
        spell == BestMatch(spells, prefer)[1]
        s2 == IF p.item_name # ""
              THEN LearnItemSpell(LearnCastTime(s1, p.item_name, p.cast_time, clock),
                                  p.item_name, spell.name)
              ELSE s1
        s3 == [s2 EXCEPT !.res.spell = spell.name]
        duration == GetDurationSeconds(spell, Level)
        timer == ActiveTimer(spell.name, target, clock + duration, duration,
                             IF spell.beneficial THEN "OTHER_BUFF" ELSE "DEBUFF")
    IN
    IF duration <= 0
    THEN CheckCastOnOtherFrom(s3, msg, clock, i + 1)
    ELSE [s3 EXCEPT !.timers = TimerAdd(@, timer), !.res.timer = <<timer>>]

\* TimerPanel._check_cast_on_other
CheckCastOnOther(st, msg, clock) ==
    IF st.pending_cast = <<>> THEN st
    ELSE CheckCastOnOtherFrom(st, msg, clock, 1)

\* what follows the call of _check_cast_on_other: buff warning, damage, kills
HandleRest(st, e, clock) ==
    LET m == e.message
    IN IF IsBuffWarning(m) THEN st
       ELSE IF m.kind = "your_damage"
       THEN AddDamage(st, "You", m.amount, m.target, clock)
       ELSE IF m.kind = "non_melee"
       THEN AddDamage(st, "You", m.amount, m.target, clock)
       ELSE IF m.kind = "other_damage"
       THEN AddDamage(st, m.name, m.amount, m.target, clock)
       ELSE IF m.kind = "you_slain"
       THEN EndCombat(st, clock)
       ELSE IF m.kind = "other_slain"
       THEN EndCombat(st, clock)
       ELSE st

\* a death that ends the combat and keeps the timers
HandleDeathKeepsTimers(st, clock) == EndCombat(st, clock)

\* "You have been slain": self._timer_mgr.clear(); self._end_combat()
HandleDeath(st, clock) == EndCombat([st EXCEPT !.timers = TimerClear(@)], clock)

\* a cast failure that clears only a pending cast without an item
HandleCastFailureKeepsItemCast(st) ==
    IF st.pending_cast # <<>> /\ st.pending_cast[1].item_name # "" THEN st
    ELSE [st EXCEPT !.pending_cast = <<>>]

\* a cast failure: self._pending_cast = None
HandleCastFailure(st) == [st EXCEPT !.pending_cast = <<>>]

\* TimerPanel._process_log_entry
ProcessEntry(st0, e, clock) ==
    LET m == e.message
        prev_was_cast == st0.last_entry_was_cast
        st == [st0 EXCEPT !.last_entry_was_cast = FALSE, !.res.message = m]
    IN
    IF IsBlacklisted(m) THEN st
    ELSE IF IsDeath(m)
    THEN HandleDeath(st, clock)
    ELSE IF IsCastFailure(m)
    THEN HandleCastFailure(st)
    ELSE IF ParseCasting(m) # ""
    THEN HandleCasting(st, e, clock, ParseCasting(m))
    ELSE IF ParseItemGlow(m) # ""
    THEN HandleItemGlow(st, e, clock, ParseItemGlow(m), prev_was_cast)
    ELSE IF FindByFades(m.text) # <<>>
    THEN [st EXCEPT !.timers = RemoveAllOnYou(@, FindByFades(m.text))]
    ELSE IF ParseSpellWornOff(m) # ""
    THEN [st EXCEPT !.timers = TimerRemove(@, ParseSpellWornOff(m), You)]
    ELSE IF FindByCastOnYou(m.text) # <<>>
    THEN HandleCastOnYou(st, e, clock, FindByCastOnYou(m.text))
    ELSE
    LET s1 == CheckCastOnOther(st, m.text, clock)
    IN IF s1.res.raised THEN s1 ELSE HandleRest(s1, e, clock)

-----------------------------------------------------------------------------
(* LogParser.parse_chat_message.  A chat line is named by the first pattern   *)
(* it matches (kind) and carries the groups that pattern captures.            *)

CharacterName == "Me"

Names == {"Bob", "me"}

\* str.lower on the names and words of the model
Lower(w) ==
    CASE w = "Me" -> "me"
      [] w = "Bob" -> "bob"
      [] w = "Following you, master." -> "following you, master."
      [] w = "Attacking" -> "attacking"
      [] OTHER -> w

\* eq_utils.decode_eq_text, word by word
DecodeEqText(content) ==
    [i \in 1..Len(content) |->
        IF content[i] = "&PCT;" THEN "%"
        ELSE IF content[i] = "&AMP;" THEN "&" ELSE content[i]]

PET_MESSAGES == {<<"following you, master.">>}

\* LogParser._is_pet_spam
IsPetSpam(content) ==
    LET content_lower == [i \in 1..Len(content) |-> Lower(content[i])]
    IN \/ content_lower \in PET_MESSAGES
       \/ /\ Len(content_lower) >= 2
          /\ content_lower[1] = "attacking"
          /\ content_lower[Len(content_lower)] = "master."

ChatLine(kind, sender, recipient, content, low, high, result) ==
    [kind |-> kind, sender |-> sender, recipient |-> recipient, content |-> content,
     low |-> low, high |-> high, result |-> result]

NoLine == ChatLine("none", "", "", <<>>, 0, 0, 0)

Contents == {<<"hi">>, <<"&PCT;">>, <<"Following you, master.">>,
             <<"Attacking", "x", "master.">>}

\* the chat lines the log delivers in this model
ChatLines ==
    {ChatLine(k, "", "", c, 0, 0, 0) :
        k \in {"guild_out", "ooc_out", "group_out", "shout_out", "auction_out", "say_out"},
        c \in {<<"hi">>, <<"&PCT;">>}}
    \cup {ChatLine(k, "Bob", "", <<"hi">>, 0, 0, 0) :
            k \in {"guild_in", "ooc_in", "group_in", "shout_in", "auction_in"}}
    \cup {ChatLine(k, "Bob", "", c, 0, 0, 0) : k \in {"tell_in", "say_in"}, c \in Contents}
    \cup {ChatLine("tell_out", "", "Bob", <<"hi">>, 0, 0, 0)}
    \cup {ChatLine("tell_arrow", n, "Bob", c, 0, 0, 0) :
            n \in {"Bob", "Me"}, c \in {<<"hi">>, <<"Following you, master.">>}}
    \cup {ChatLine("roller", n, "", <<>>, 0, 0, 0) : n \in Names}
    \cup {ChatLine("result", "", "", <<>>, lo, 2, r) : lo \in {0, 1}, r \in {1, 2}}
    \cup {ChatLine("other", "", "", <<"hi">>, 0, 0, 0)}

ChatMessage(timestamp, channel, sender, content, is_outgoing, tell_target) ==
    [timestamp |-> timestamp, channel |-> channel, sender |-> sender,
     content |-> content, is_outgoing |-> is_outgoing, tell_target |-> tell_target]

\* a Roll content with the bounds swapped
RollContentSwapped(result, low, high) == <<result, "(", high, "-", low, ")">>

\* f"{result} ({low}-{high})"
RollContent(result, low, high) == <<result, "(", low, "-", high, ")">>

\* the parser's two fields and what the call returns: <<>> is None
ParserResult(ps, roller, flag, out) ==
    [pending_roller |-> roller, last_was_die_roll |-> flag, out |-> out]

\* LogParser.parse_chat_message on parser state ps and entry e
ParseChatMessage(ps, e) ==
    LET l == e.message
        ts == e.timestamp
        keep(out) == ParserResult(ps, ps.pending_roller, ps.last_was_die_roll, out)
        outgoing(channel) ==
            keep(<<ChatMessage(ts, channel, "You", DecodeEqText(l.content), TRUE, "")>>)
        incoming(channel) ==
            keep(<<ChatMessage(ts, channel, l.sender, DecodeEqText(l.content), FALSE, "")>>)
    IN
    CASE l.kind = "guild_out" -> outgoing("GUILD")
      [] l.kind = "guild_in" -> incoming("GUILD")
      [] l.kind = "ooc_out" -> outgoing("OOC")
      [] l.kind = "ooc_in" -> incoming("OOC")
      [] l.kind = "group_out" -> outgoing("GROUP")
      [] l.kind = "group_in" -> incoming("GROUP")
      [] l.kind = "shout_out" -> outgoing("SHOUT")
      [] l.kind = "shout_in" -> incoming("SHOUT")
      [] l.kind = "auction_out" -> outgoing("AUCTION")
      [] l.kind = "auction_in" -> incoming("AUCTION")
      [] l.kind = "tell_in" ->
            IF IsPetSpam(DecodeEqText(l.content)) THEN keep(<<>>)
            ELSE keep(<<ChatMessage(ts, "TELL", l.sender, DecodeEqText(l.content),
                                    FALSE, l.sender)>>)
      [] l.kind = "tell_out" ->
            keep(<<ChatMessage(ts, "TELL", "You", DecodeEqText(l.content),
                               TRUE, l.recipient)>>)
      [] l.kind = "tell_arrow" ->
            LET is_out == Lower(l.sender) = Lower(CharacterName)
                other == IF is_out THEN l.recipient ELSE l.sender
            IN IF ~is_out /\ IsPetSpam(DecodeEqText(l.content)) THEN keep(<<>>)
               ELSE keep(<<ChatMessage(ts, "TELL", l.sender, DecodeEqText(l.content),
                                       is_out, other)>>)
      [] l.kind = "say_out" ->
            ParserResult(ps, ps.pending_roller, FALSE,
                <<ChatMessage(ts, "SAY", "You", DecodeEqText(l.content), TRUE, "")>>)
      [] l.kind = "say_in" ->
            ParserResult(ps, ps.pending_roller, FALSE,
                IF IsPetSpam(DecodeEqText(l.content)) THEN <<>>
                ELSE <<ChatMessage(ts, "SAY", l.sender, DecodeEqText(l.content),
                                   FALSE, "")>>)
      [] l.kind = "roller" -> ParserResult(ps, l.sender, TRUE, <<>>)
      [] l.kind = "result" ->
            IF ps.last_was_die_roll /\ ps.pending_roller # ""
            THEN ParserResult(ps, "", FALSE,
                    <<ChatMessage(ts, "RANDOM", ps.pending_roller,
                                  RollContent(l.result, l.low, l.high),
                                  Lower(ps.pending_roller) = Lower(CharacterName), "")>>)
            ELSE ParserResult(ps, ps.pending_roller, FALSE, <<>>)
      [] OTHER -> ParserResult(ps, ps.pending_roller, FALSE, <<>>)

-----------------------------------------------------------------------------
(* Live ingestion: the watcher hands each parsed entry to _process_log_entry *)

NoDisk == [it \in Items |-> [spell_name |-> "", cast_times_ms |-> [k \in {} |-> 0]]]

\* TimerPanel._load_learned_items: the most frequently observed cast time
BestCastTime(hist) ==
    IF DOMAIN hist = {} THEN 0
    ELSE CHOOSE ms \in DOMAIN hist : \A o \in DOMAIN hist : hist[ms] >= hist[o]

\* the lines the live log delivers in this model
PanelMessages ==
    { Msg("blacklisted", "", <<>>), Msg("death", "", <<>>),
      Msg("cast_failure", "", <<>>),
      Msg("casting", "Z", <<>>), Msg("casting", "A", <<>>), Msg("casting", "Q", <<>>),
      Msg("item_glow", "I1", <<>>),
      Msg("other", "", <<"f">>), Msg("other", "", <<"y">>),
      Msg("other", "", <<"b", "s">>), Msg("other", "", <<"b", "t", "s">>),
      Msg("other", "", <<"q">>) }

\* the entries the live log delivers: a timestamp and a message
PanelEntries == {LogEntry(ts, m) : ts \in 0..MaxTime, m \in PanelMessages}

InitRegistryIdle == reg_op = [op |-> "none", timer |-> <<>>]

InitPanel ==
    /\ now = 0
    /\ pending_cast = <<>>
    /\ last_entry_was_cast = FALSE
    /\ timers = EmptyRegistry
    /\ disk_items = NoDisk
    /\ learned_items = [it \in Items |-> disk_items[it].spell_name]
    /\ item_cast_times = [it \in Items |-> BestCastTime(disk_items[it].cast_times_ms)]
    /\ combat = NoCombat
    /\ last_timestamp = 0
    /\ res = NoRes
    /\ qt_pc = "idle"
    /\ ended_snapshots = 0

InitParserIdle ==
    /\ pending_roller = ""
    /\ last_was_die_roll = FALSE
    /\ chat_last = LogEntry(0, NoLine)
    /\ chat_out = <<>>

InitScanIdle ==
    /\ file = <<>>
    /\ chunk_size = 1
    /\ cutoff = 0
    /\ scan_pc = "done"
    /\ end_pos = 0
    /\ start_read_pos = 0
    /\ entries = <<>>

InitCountIdle ==
    /\ max_channel_msgs = 0
    /\ max_dm_convos = 0
    /\ channel_counts = [c \in {} |-> 0]
    /\ dm_conversations = {}
    /\ messages = <<>>

InitDurationIdle ==
    /\ dur_args = [formula |-> 0, base |-> 0, level |-> 1]
    /\ dur_ret = -1

InitWatchIdle ==
    /\ log_size = 0
    /\ replayed = {}
    /\ watch_pc = "idle"
    /\ running = FALSE
    /\ stop_requested = FALSE
    /\ watch_pos = 0
    /\ cur_line = 0
    /\ delivered = <<>>
    /\ classified = <<>>

InitStoreIdle ==
    /\ conversations = [c \in {} |-> <<>>]
    /\ store_op = [op |-> "none"]

InitReplayIdle ==
    /\ replay_log = <<>>
    /\ replay_pos = 0
    /\ history_timers = <<>>

InitCatalogIdle ==
    /\ spells_file = <<>>
    /\ whitelist = <<>>
    /\ db = [loaded |-> FALSE]

InitMatchIdle ==
    /\ bm_args = [spells |-> <<>>, prefer_name |-> ""]
    /\ bm_ret = <<"pending">>

InitWhoIdle ==
    /\ who_lines = <<>>
    /\ who_timestamp = -1
    /\ who_last = LogEntry(0, "")
    /\ who_out = <<>>

InitUiIdle ==
    /\ ui_pc = "idle"
    /\ ui_keys = {}
    /\ ui_left = {}
    /\ ui_to_remove = {}
    /\ ui_error = ""

\* the components no entry has reached yet
InitExtIdle ==
    /\ InitWatchIdle /\ InitStoreIdle /\ InitReplayIdle /\ InitCatalogIdle
    /\ InitMatchIdle /\ InitUiIdle /\ InitWhoIdle

Init ==
    /\ InitPanel /\ InitRegistryIdle /\ InitParserIdle /\ InitScanIdle
    /\ InitCountIdle /\ InitDurationIdle
    /\ InitExtIdle

\* LogWatcher._process_line calls the entry callback with the next entry of the log
ProcessLogEntry(e) ==
    /\ e.timestamp >= last_timestamp
    /\ e.timestamp <= now
    /\ UNCHANGED <<now, reg_op, parser_vars, scan_vars, qt_pc, count_vars, duration_vars,
                   watch_vars, store_vars, replay_log, history_timers, catalog_vars,
                   match_vars, ui_vars, who_vars>>
    /\ replay_pos' = IF replay_pos < Len(replay_log) THEN replay_pos + 1 ELSE replay_pos
    /\ last_timestamp' = e.timestamp
    /\ \E r \in {ProcessEntry(PanelState, e, now)} :
          /\ pending_cast' = r.pending_cast
          /\ last_entry_was_cast' = r.last_entry_was_cast
          /\ timers' = r.timers
          /\ learned_items' = r.learned_items
          /\ item_cast_times' = r.item_cast_times
          /\ disk_items' = r.disk_items
          /\ combat' = r.combat
          /\ res' = r.res
          /\ ended_snapshots' =
                IF ~combat.active /\ r.combat.active THEN 0
                ELSE IF r.res.dps # <<>> /\ r.res.dps[1].ended THEN ended_snapshots + 1
                ELSE ended_snapshots

\* the wall clock advances
Tick ==
    /\ now < MaxTime
    /\ now' = now + 1
    /\ UNCHANGED <<timers, reg_op, pending_cast, last_entry_was_cast, learned_items,
                   item_cast_times, disk_items, combat, last_timestamp, res,
                   parser_vars, scan_vars, qt_vars, count_vars, duration_vars, ext_vars>>

Next ==
    \/ \E e \in PanelEntries : ProcessLogEntry(e)
    \/ Tick

Spec == Init /\ [][Next]_vars

-----------------------------------------------------------------------------
(* TimerManager driven through its own interface: any caller, any timer *)

\* the timers a caller may hand to TimerManager.add
RegTimers ==
    {ActiveTimer(n, tg, en, d, c) :
        n \in {"A"}, tg \in {You, <<"b">>}, en \in 1..MaxEnd, d \in {6, 18},
        c \in {"SELF_BUFF", "RECEIVED_BUFF"}}

\* TimerManager.add
RegAdd(t) ==
    /\ timers' = TimerAdd(timers, t)
    /\ reg_op' = [op |-> "add", timer |-> <<t>>]
    /\ UNCHANGED <<panel_vars, parser_vars, scan_vars, qt_vars, count_vars, duration_vars, ext_vars>>

\* TimerManager.remove
RegRemove(spell_name, target) ==
    /\ timers' = TimerRemove(timers, spell_name, target)
    /\ reg_op' = [op |-> "remove", timer |-> <<>>]
    /\ UNCHANGED <<panel_vars, parser_vars, scan_vars, qt_vars, count_vars, duration_vars, ext_vars>>

\* TimerManager.remove_all_for_target
RegRemoveAllForTarget(target) ==
    /\ timers' = TimerRemoveAllForTarget(timers, target)
    /\ reg_op' = [op |-> "remove_all_for_target", timer |-> <<>>]
    /\ UNCHANGED <<panel_vars, parser_vars, scan_vars, qt_vars, count_vars, duration_vars, ext_vars>>

\* TimerManager.clear
RegClear ==
    /\ timers' = TimerClear(timers)
    /\ reg_op' = [op |-> "clear", timer |-> <<>>]
    /\ UNCHANGED <<panel_vars, parser_vars, scan_vars, qt_vars, count_vars, duration_vars, ext_vars>>

\* TimerManager.check_expired at the current wall clock
RegCheckExpired ==
    /\ timers' = CheckExpired(timers, now)
    /\ reg_op' = [op |-> "check_expired", timer |-> ExpiredTimers(timers, now)]
    /\ UNCHANGED <<panel_vars, parser_vars, scan_vars, qt_vars, count_vars, duration_vars, ext_vars>>

NextRegistry ==
    \/ \E t \in RegTimers : RegAdd(t)
    \/ \E t \in RegTimers : RegRemove(t.spell_name, t.target)
    \/ \E t \in RegTimers : RegRemoveAllForTarget(t.target)
    \/ RegClear
    \/ RegCheckExpired
    \/ Tick

SpecRegistry == Init /\ [][NextRegistry]_vars

\* C1: timer refresh law.  Adding a timer whose (spell name, target) key is
\* absent inserts it; when the key is present the stored timer is replaced only
\* if the new end time is strictly later, and otherwise the registry is left
\* unchanged in every field.  No add ever lowers the end time stored at a key,
\* and no add touches another key.
C1_TimerRefreshLaw ==
    [][(reg_op'.op = "add" /\ RegAdd(reg_op'.timer[1]))
       => LET t == reg_op'.timer[1]
              key == <<t.spell_name, t.target>>
          IN /\ key \notin DOMAIN timers =>
                   /\ DOMAIN timers' = DOMAIN timers \cup {key}
                   /\ timers'[key] = t
             /\ (key \in DOMAIN timers /\ t.end_time > timers[key].end_time) =>
                   /\ DOMAIN timers' = DOMAIN timers
                   /\ timers'[key] = t
             /\ (key \in DOMAIN timers /\ t.end_time <= timers[key].end_time) =>
                   timers' = timers
             /\ key \in DOMAIN timers =>
                   timers'[key].end_time >= timers[key].end_time
             /\ \A k \in DOMAIN timers \ {key} :
                   k \in DOMAIN timers' /\ timers'[k] = timers[k]
      ]_vars

\* an add with the end time already stored, but other fields, was ignored
C1_Witness ==
    /\ reg_op.op = "add"
    /\ <<reg_op.timer[1].spell_name, reg_op.timer[1].target>> \in DOMAIN timers
    /\ timers[<<reg_op.timer[1].spell_name, reg_op.timer[1].target>>].end_time
          = reg_op.timer[1].end_time
    /\ timers[<<reg_op.timer[1].spell_name, reg_op.timer[1].target>>]
          # reg_op.timer[1]

-----------------------------------------------------------------------------
(* The chat classifier fed line by line *)

\* LogWatcher._process_line: parse_chat_message on the next entry of the log
ClassifyLine(e) ==
    /\ \E r \in {ParseChatMessage([pending_roller |-> pending_roller,
                                   last_was_die_roll |-> last_was_die_roll], e)} :
          /\ pending_roller' = r.pending_roller
          /\ last_was_die_roll' = r.last_was_die_roll
          /\ chat_out' = r.out
    /\ chat_last' = e
    /\ UNCHANGED <<timers, reg_op, panel_vars, scan_vars, qt_vars, count_vars, duration_vars, ext_vars>>

NextParser == \E ts \in 0..MaxTime, l \in ChatLines : ClassifyLine(LogEntry(ts, l))

SpecParser == Init /\ [][NextParser]_vars

\* C4 as stated: a Roll is emitted for a result line only if the line classified
\* immediately before it was the roll opener; any other line classified after
\* the opener, whatever its kind, clears the roll-pending flag.
C4_DieRollStrictAdjacency ==
    [][ClassifyLine(chat_last')
       => /\ (chat_out' # <<>> /\ chat_out'[1].channel = "RANDOM")
                => chat_last.message.kind = "roller"
          /\ chat_last'.message.kind # "roller" => ~last_was_die_roll'
      ]_vars

\* C5: die-roll pair.  An opener immediately followed by a result line emits
\* exactly one Roll with the opener's roller name and the result line's value,
\* low and high; the opener itself emits nothing; after a Roll the pending
\* roller is cleared, so a result line with no new opener emits nothing; and a
\* line that is neither opener nor result is classified as it would be with no
\* roll pending.
C5_DieRollPair ==
    [][ClassifyLine(chat_last')
       => LET e == chat_last'
              l == e.message
              is_roll == chat_out' # <<>> /\ chat_out'[1].channel = "RANDOM"
          IN /\ (l.kind = "result" /\ chat_last.message.kind = "roller") =>
                   /\ Len(chat_out') = 1
                   /\ chat_out'[1].timestamp = e.timestamp
                   /\ chat_out'[1].channel = "RANDOM"
                   /\ chat_out'[1].sender = chat_last.message.sender
                   /\ chat_out'[1].content = <<l.result, "(", l.low, "-", l.high, ")">>
             /\ l.kind = "roller" =>
                   /\ chat_out' = <<>>
                   /\ pending_roller' = l.sender
                   /\ last_was_die_roll'
             /\ is_roll => (pending_roller' = "" /\ ~last_was_die_roll')
             /\ (l.kind = "result" /\ pending_roller = "") => chat_out' = <<>>
             /\ l.kind \notin {"roller", "result"} =>
                   chat_out' = ParseChatMessage([pending_roller |-> "",
                                                 last_was_die_roll |-> FALSE], e).out
      ]_vars

\* a result line right after an opener has emitted the Roll
C5_Witness ==
    /\ chat_last.message.kind = "result"
    /\ chat_out # <<>>
    /\ chat_out[1].channel = "RANDOM"
    /\ chat_out[1].content = <<chat_last.message.result, "(", chat_last.message.low,
                               "-", chat_last.message.high, ")">>
    /\ pending_roller = ""

-----------------------------------------------------------------------------
(* LogWatcher.load_raw_history / load_chat_history_since: the backward scan   *)
(* in chunks and the forward read.  A file is a sequence of lines; a line is  *)
(* [len, ts]: its length in bytes with its newline, and the timestamp         *)
(* parse_line reads from it, -1 when the line does not parse.                 *)

FileLines == [len : {1, 2}, ts : -1..MaxTime]

Files == UNION {[1..n -> FileLines] : n \in 0..MaxLines}

RECURSIVE LineStart(_, _)
\* the offset of the first byte of line i (of the end of the file for i = Len + 1)
LineStart(f, i) == IF i = 1 THEN 0 ELSE LineStart(f, i - 1) + f[i - 1].len

\* f.seek(0, 2); f.tell()
FileSize(f) == LineStart(f, Len(f) + 1)

\* f.seek(pos); f.readline(); f.tell(): the end of the line that holds byte pos
AfterReadline(f, pos) ==
    IF pos >= FileSize(f) THEN FileSize(f)
    ELSE LET i == CHOOSE j \in 1..Len(f) : LineStart(f, j) <= pos /\ pos < LineStart(f, j + 1)
         IN LineStart(f, i + 1)

\* parse_line(f.readline()) at a line start: <<>> at the end of the file or when
\* the line does not parse, else the entry, named by its timestamp and line number
ParseLineAt(f, pos) ==
    IF \E j \in 1..Len(f) : LineStart(f, j) = pos /\ f[j].ts # -1
    THEN LET i == CHOOSE j \in 1..Len(f) : LineStart(f, j) = pos
         IN <<[timestamp |-> f[i].ts, line |-> i]>>
    ELSE <<>>

RECURSIVE ReadForwardNoCutoff(_, _, _)
\* a forward read that keeps every entry that parses
ReadForwardNoCutoff(f, pos, since) ==
    IF pos >= FileSize(f) THEN <<>>
    ELSE ParseLineAt(f, pos) \o ReadForwardNoCutoff(f, AfterReadline(f, pos), since)

RECURSIVE ReadForward(_, _, _)
\* for line in f: keep the entries that parse and are not before the cutoff
ReadForward(f, pos, since) ==
    IF pos >= FileSize(f) THEN <<>>
    ELSE LET entry == ParseLineAt(f, pos)
             rest == ReadForward(f, AfterReadline(f, pos), since)
         IN IF entry # <<>> /\ entry[1].timestamp >= since THEN entry \o rest ELSE rest

InitScan ==
    /\ file \in Files
    /\ chunk_size \in 1..MaxChunk
    /\ cutoff \in 0..MaxTime
    /\ scan_pc = "back"
    /\ end_pos = FileSize(file)
    /\ start_read_pos = 0
    /\ entries = <<>>

\* one round of "while end_pos > 0"
ScanBackward ==
    /\ scan_pc = "back"
    /\ end_pos > 0
    /\ LET start_pos == Max(0, end_pos - chunk_size)
           chunk_start == IF start_pos > 0 THEN AfterReadline(file, start_pos)
                          ELSE start_pos
           first == ParseLineAt(file, chunk_start)
       IN IF first # <<>> /\ first[1].timestamp < cutoff
          THEN /\ start_read_pos' = chunk_start
               /\ scan_pc' = "fwd"
               /\ UNCHANGED end_pos
          ELSE /\ end_pos' = chunk_start
               /\ UNCHANGED <<start_read_pos, scan_pc>>
    /\ UNCHANGED <<timers, reg_op, panel_vars, parser_vars, file, chunk_size, cutoff,
                   entries, qt_vars, count_vars, duration_vars, ext_vars>>

\* the loop is left, by break or with end_pos at 0: read forward from start_read_pos
ScanForward ==
    /\ scan_pc = "fwd" \/ (scan_pc = "back" /\ end_pos <= 0)
    /\ entries' = ReadForward(file,
                              IF start_read_pos > 0
                              THEN AfterReadline(file, start_read_pos)
                              ELSE start_read_pos,
                              cutoff)
    /\ scan_pc' = "done"
    /\ UNCHANGED <<timers, reg_op, panel_vars, parser_vars, file, chunk_size, cutoff,
                   end_pos, start_read_pos, qt_vars, count_vars, duration_vars, ext_vars>>

NextScan == ScanBackward \/ ScanForward

\* the watcher is constructed and load_raw_history is called
InitHistory ==
    /\ InitPanel /\ InitRegistryIdle /\ InitParserIdle /\ InitScan
    /\ InitCountIdle /\ InitDurationIdle
    /\ InitExtIdle

SpecScan == InitHistory /\ [][NextScan]_vars

\* a single forward pass over the whole file that keeps the entries at or after
\* the cutoff
NaiveForward(f, since) == ReadForward(f, 0, since)

\* C6 as stated: for every file, chunk size and cutoff, the entries the backward
\* scan returns are, in content and order, those of a single forward pass over
\* the whole file filtered by the cutoff.
C6_ScanEquivalence ==
    scan_pc = "done" => entries = NaiveForward(file, cutoff)

-----------------------------------------------------------------------------
(* Properties of the cast correlator, checked under Spec.  res is the record  *)
(* of how the last processed entry was handled.                               *)

\* the messages of the log that reach the cast-on-you handler
CastOnYouMessages ==
    {m \in PanelMessages : /\ m.kind = "other"
                           /\ FindByFades(m.text) = <<>>
                           /\ FindByCastOnYou(m.text) # <<>>}

\* C2: cast-on-you window boundary.  With a pending cast whose spell is among
\* the candidates of a cast-on-you message, an entry whose log timestamp is
\* exactly cast_window_seconds after the pending cast's log timestamp does not
\* correlate (the timer is a received buff and the pending cast stays), and an
\* entry one time unit earlier does correlate (self buff, pending cleared).
C2_WindowBoundary ==
    [][LET e == LogEntry(last_timestamp', res'.message) IN
          (/\ res'.message \in CastOnYouMessages
           /\ pending_cast # <<>>
           /\ \E i \in 1..Len(FindByCastOnYou(e.message.text)) :
                 FindByCastOnYou(e.message.text)[i].name = pending_cast[1].spell_name
           /\ ProcessLogEntry(e))
          => LET elapsed == e.timestamp - pending_cast[1].log_timestamp
             IN /\ elapsed = CastWindow =>
                     /\ ~res'.is_self_cast
                     /\ pending_cast' = pending_cast
                     /\ res'.timer # <<>> => res'.timer[1].category = "RECEIVED_BUFF"
                /\ elapsed = CastWindow - 1 =>
                     /\ res'.is_self_cast
                     /\ pending_cast' = <<>>
                     /\ res'.timer # <<>> => res'.timer[1].category = "SELF_BUFF"
      ]_vars

\* a cast-on-you entry arrived exactly at the boundary and was a received buff
C2_Witness ==
    /\ res.message \in CastOnYouMessages
    /\ ~res.is_self_cast
    /\ res.timer # <<>>
    /\ pending_cast # <<>>
    /\ last_timestamp - pending_cast[1].log_timestamp = CastWindow
    /\ pending_cast[1].spell_name = res.spell

\* C3: item adjacency.  An item-glow entry attaches its item to the pending
\* cast only if the entry processed immediately before it was the cast-begin
\* entry that created that pending cast and the pending cast has no item yet;
\* after any other entry the item is not attached although a cast is pending.
\* The adjacency flag is true for exactly the one entry after a cast-begin.
C3_ItemAdjacency ==
    [][/\ last_entry_was_cast <=> res.message.kind = "casting"
       /\ last_entry_was_cast =>
             /\ pending_cast # <<>>
             /\ pending_cast[1].item_name = ""
             /\ pending_cast[1].log_timestamp = last_timestamp
       /\ LET e == LogEntry(last_timestamp', res'.message) IN
             (/\ res'.message.kind = "item_glow"
              /\ ProcessLogEntry(e))
             => LET open == pending_cast # <<>> /\ pending_cast[1].item_name = ""
                    attached == open /\ pending_cast' =
                                  <<[pending_cast[1] EXCEPT !.item_name = e.message.name]>>
                IN /\ attached <=> (open /\ last_entry_was_cast)
                   /\ (pending_cast # <<>> /\ ~attached) => pending_cast' = pending_cast
                   /\ ~last_entry_was_cast'
      ]_vars

\* an item glow right after a cast begin attached its item
C3_Witness ==
    /\ res.message.kind = "item_glow"
    /\ res.attached
    /\ pending_cast # <<>>
    /\ pending_cast[1].item_name = "I1"

\* C7: single outstanding cast.  A cast-begin entry always replaces the pending
\* cast by a new one for that spell, stamped with the entry's log timestamp and
\* without an item, whatever the earlier pending cast was.
C7_SingleOutstandingCast ==
    [][LET e == LogEntry(last_timestamp', res'.message) IN
          (/\ res'.message.kind = "casting"
           /\ ProcessLogEntry(e))
          => /\ Len(pending_cast') = 1
             /\ pending_cast'[1].spell_name = e.message.name
             /\ pending_cast'[1].log_timestamp = e.timestamp
             /\ pending_cast'[1].cast_time = now
             /\ pending_cast'[1].item_name = ""
      ]_vars

\* a cast begin replaced a pending cast that carried an item
C7_Witness ==
    /\ res.message.kind = "casting"
    /\ res.prev_item # ""
    /\ pending_cast # <<>>
    /\ pending_cast[1].item_name = ""

\* C8: cast-on-you classification.  A cast-on-you message is a self cast, and
\* clears the pending cast, exactly when a pending cast exists, the log time
\* since it is below the window, and a candidate has the pending spell's name;
\* the spell is then the pending one (best match prefers it).  Otherwise it is
\* a received buff for the first duration-bearing candidate and the pending
\* cast is untouched.
C8_CastOnYouClassification ==
    [][LET e == LogEntry(last_timestamp', res'.message) IN
          (/\ res'.message \in CastOnYouMessages
           /\ ProcessLogEntry(e))
          => LET spells == FindByCastOnYou(e.message.text)
                 corr == /\ pending_cast # <<>>
                         /\ e.timestamp - pending_cast[1].log_timestamp < CastWindow
                         /\ \E i \in 1..Len(spells) :
                               spells[i].name = pending_cast[1].spell_name
                 lasting == {i \in 1..Len(spells) :
                                ~(spells[i].duration_formula = 0
                                  /\ spells[i].duration_base = 0)}
                 first == IF lasting = {} THEN 1
                          ELSE CHOOSE i \in lasting : \A j \in lasting : i <= j
             IN /\ res'.is_self_cast <=> corr
                /\ corr => /\ pending_cast' = <<>>
                           /\ res'.spell = pending_cast[1].spell_name
                           /\ res'.timer # <<>> =>
                                 res'.timer[1].category = "SELF_BUFF"
                /\ ~corr => /\ pending_cast' = pending_cast
                            /\ res'.spell = spells[first].name
                            /\ res'.timer # <<>> =>
                                  res'.timer[1].category = "RECEIVED_BUFF"
      ]_vars

\* a cast-on-you message correlated with the pending cast
C8_Witness ==
    /\ res.message \in CastOnYouMessages
    /\ res.is_self_cast
    /\ pending_cast = <<>>
    /\ res.spell = "Z"

\* the messages of the log that reach the spell-landing handlers
LandingMessages ==
    {m \in PanelMessages : m.kind = "other" /\ FindByFades(m.text) = <<>>}

\* C9 as stated: a landing message that correlates with no pending cast, or
\* has no catalog candidates, leaves the timer registry unchanged.
C9_UnmatchedLandingNoTimer ==
    [][LET e == LogEntry(last_timestamp', res'.message) IN
          (/\ res'.message \in LandingMessages
           /\ ProcessLogEntry(e)
           /\ ~res'.is_self_cast
           /\ res'.matched_at = 0)
          => timers' = timers
      ]_vars

\* C9, amended: an unmatched cast-on-other message, or a message without
\* catalog candidates, leaves the registry unchanged.  A cast-on-you message
\* that correlates with no pending cast is a buff received from someone else:
\* when its best-match candidate has a positive duration it adds, under the
\* refresh law, a received-buff timer on "You" for that candidate, and it
\* changes no other registry entry.
C9_UnmatchedLanding ==
    [][LET e == LogEntry(last_timestamp', res'.message) IN
          (/\ res'.message \in LandingMessages
           /\ ProcessLogEntry(e)
           /\ ~res'.is_self_cast
           /\ res'.matched_at = 0)
          => IF e.message \in CastOnYouMessages
             THEN /\ DOMAIN timers \subseteq DOMAIN timers'
                  /\ \A k \in DOMAIN timers' :
                        \/ k \in DOMAIN timers /\ timers'[k] = timers[k]
                        \/ /\ k = <<res'.spell, You>>
                           /\ timers'[k].category = "RECEIVED_BUFF"
                           /\ timers'[k].total_duration > 0
                           /\ timers'[k].end_time = now + timers'[k].total_duration
                           /\ k \in DOMAIN timers =>
                                 timers'[k].end_time > timers[k].end_time
                  /\ (\E i \in 1..Len(FindByCastOnYou(e.message.text)) :
                         /\ FindByCastOnYou(e.message.text)[i].name = res'.spell
                         /\ GetDurationSeconds(FindByCastOnYou(e.message.text)[i], Level) > 0)
                     => <<res'.spell, You>> \in DOMAIN timers'
             ELSE timers' = timers
      ]_vars

\* with no cast pending, a cast-on-you message has put a received buff on "You"
C9_Witness ==
    /\ res.message \in CastOnYouMessages
    /\ ~res.is_self_cast
    /\ pending_cast = <<>>
    /\ res.timer # <<>>
    /\ <<res.spell, You>> \in DOMAIN timers
    /\ timers[<<res.spell, You>>] = res.timer[1]
    /\ res.timer[1].category = "RECEIVED_BUFF"

\* C10 as stated: when the pending cast matches at a cast-on-other suffix, the
\* pending cast is cleared, no later suffix is examined (also when the matched
\* spell has zero duration), and the handler completes without error.
C10_FirstMatchStop ==
    [][LET e == LogEntry(last_timestamp', res'.message) IN
          (/\ res'.message \in LandingMessages \ CastOnYouMessages
           /\ ProcessLogEntry(e)
           /\ res'.matched_at > 0)
          => /\ pending_cast' = <<>>
             /\ res'.last_examined = res'.matched_at
             /\ ~res'.raised
      ]_vars

-----------------------------------------------------------------------------
(* DurationFormula.calculate called on any formula id, base and level *)

MaxBase == 61        \* bases run over 0..MaxBase (above 60 for formulas 9 and 10)
MaxLevel == 10       \* caster levels run over 1..MaxLevel

\* the formula ids of the table, and ids outside it
FormulaIds == (0..12) \cup {15, 50, 3600} \cup {13, 14, 99}

InitDuration ==
    /\ dur_args \in [formula : FormulaIds, base : 0..MaxBase, level : 1..MaxLevel]
    /\ dur_ret = -1

\* DurationFormula.calculate(formula, base, level)
CallCalculate ==
    /\ dur_ret = -1
    /\ dur_ret' = Calculate(dur_args.formula, dur_args.base, dur_args.level)
    /\ UNCHANGED <<dur_args, timers, reg_op, panel_vars, parser_vars, scan_vars, qt_vars,
                   count_vars, ext_vars>>

NextDuration == CallCalculate

\* a spell's duration is asked for
InitCalculate ==
    /\ InitPanel /\ InitRegistryIdle /\ InitParserIdle /\ InitScanIdle
    /\ InitCountIdle /\ InitDuration
    /\ InitExtIdle

SpecDuration == InitCalculate /\ [][NextDuration]_vars

\* the least n with n * d >= x, for x >= 0 and d > 0
CeilOf(x, d) == CHOOSE n \in 0..x : n * d >= x /\ (n = 0 \/ (n - 1) * d < x)

\* the level-derived tick count of the documented table
LevelTicks(formula, level) ==
    CASE formula \in {1, 6} -> CeilOf(level, 2)
      [] formula = 2 -> CeilOf(3 * level, 5)
      [] formula = 3 -> 30 * level
      [] formula = 7 -> level
      [] formula = 8 -> level + 10
      [] formula = 9 -> 2 * level + 10
      [] formula = 10 -> 3 * level + 10

\* the documented table, row by row
TableTicks(formula, base, level) ==
    IF formula = 0 THEN 0
    ELSE IF formula \in {1, 2, 3, 6, 7, 8}
    THEN IF base > 0 /\ base < LevelTicks(formula, level) THEN base
         ELSE LevelTicks(formula, level)
    ELSE IF formula = 4 THEN (IF base > 0 THEN base ELSE 50)
    ELSE IF formula = 5 THEN (IF base > 0 THEN base ELSE 3)
    ELSE IF formula = 3600 THEN (IF base > 0 THEN base ELSE 3600)
    ELSE IF formula \in {9, 10}
    THEN IF base > 60 THEN base
         ELSE IF base > 0 /\ base < LevelTicks(formula, level) THEN base
         ELSE LevelTicks(formula, level)
    ELSE IF formula = 50 THEN 72000
    ELSE base

\* C15: tick formula table.  For every formula id of the table and every other
\* id, every base >= 0 and every level >= 1 of the range, calculate returns 6
\* times the tick count of the documented table; (4, base 0) gives 300,
\* (1, base 0, level 10) gives 30, (1, base 2, level 10) gives 12 and
\* (50, anything) gives 432000.
C15_TickFormulaTable ==
    dur_ret # -1 =>
        /\ dur_ret = 6 * TableTicks(dur_args.formula, dur_args.base, dur_args.level)
        /\ (dur_args.formula = 4 /\ dur_args.base = 0) => dur_ret = 300
        /\ (dur_args.formula = 1 /\ dur_args.base = 0 /\ dur_args.level = 10)
              => dur_ret = 30
        /\ (dur_args.formula = 1 /\ dur_args.base = 2 /\ dur_args.level = 10)
              => dur_ret = 12
        /\ dur_args.formula = 50 => dur_ret = 432000

\* formula 9 was asked with a base above 60 and returned the base uncapped
C15_Witness ==
    /\ dur_args = [formula |-> 9, base |-> 61, level |-> 10]
    /\ dur_ret = 366

-----------------------------------------------------------------------------
(* The live tail with combat: the watcher thread runs _process_log_entry for  *)
(* each entry, and the GUI thread runs the QTimer callbacks and the context   *)
(* menu.  The two threads share the panel's fields without a lock: the GUI    *)
(* thread is observed between the statements of _end_combat.                  *)

MaxClock == 2        \* the wall clock of the combat runs over 0..MaxClock
MaxDamage == 2       \* damage totals of one attacker stay within MaxDamage

CombatTimeout == 1   \* timers.combat_timeout_seconds

DamageMsg(kind, name, target, amount, text) ==
    [kind |-> kind, name |-> name, text |-> text, target |-> target, amount |-> amount]

DamageKinds == {"your_damage", "non_melee", "other_damage"}

SlainKinds == {"you_slain", "other_slain"}

\* the lines the live log delivers during a fight
CombatMessages ==
    { Msg("death", "", <<>>),
      DamageMsg("your_damage", "", "orc", 1, <<>>),
      DamageMsg("non_melee", "", "rat", 2, <<>>),
      DamageMsg("other_damage", "Bob", "rat", 1, <<>>),
      Msg("you_slain", "orc", <<>>), Msg("other_slain", "", <<>>) }

\* the lines the live log delivers while casting in a fight; the text
\* <<"c", "t", "s">> ends with the cast-on-other template of spell A
LiveMessages ==
    { Msg("death", "", <<>>), Msg("cast_failure", "", <<>>),
      Msg("casting", "A", <<>>), Msg("item_glow", "I1", <<>>),
      Msg("other", "", <<"b", "t", "s">>),
      Msg("buff_warning", "", <<>>),
      DamageMsg("your_damage", "", "orc", 1, <<>>),
      Msg("you_slain", "orc", <<>>),
      DamageMsg("other_damage", "Bob", "orc", 1, <<"c", "t", "s">>),
      Msg("other_slain", "", <<"c", "t", "s">>) }

\* the attacker _add_damage is called with for a damage line
Attacker(m) == IF m.kind = "other_damage" THEN m.name ELSE "You"

\* the total _combat_damage holds for a player, 0 when absent (dict.get(player, 0))
DamageOf(c, player) == IF player \in DOMAIN c.damage THEN c.damage[player] ELSE 0

\* the watcher thread: _process_line hands the next entry to _process_log_entry
IngestEntry(e) ==
    /\ (e.message.kind \in DamageKinds /\ combat.active)
          => DamageOf(combat, Attacker(e.message)) + e.message.amount <= MaxDamage
    /\ ProcessLogEntry(e)

\* (datetime.now() - self._last_damage_time).total_seconds() > timeout
TimedOut(elapsed) == elapsed > CombatTimeout

\* the GUI thread: _check_combat_timeout up to and including the emit of
\* _end_combat (self._emit_dps(final=True)); the two assignments follow
CheckCombatTimeout ==
    /\ qt_pc = "idle"
    /\ combat.active
    /\ combat.last_damage_time # -1
    /\ TimedOut(now - combat.last_damage_time)
    /\ qt_pc' = "emitted"
    /\ ended_snapshots' = IF combat.start # -1 THEN ended_snapshots + 1
                          ELSE ended_snapshots
    /\ UNCHANGED <<timers, reg_op, panel_vars, parser_vars, scan_vars, count_vars,
                   duration_vars, ext_vars>>

\* the GUI thread: self._combat_active = False; self._last_damage_time = None
EndCombatReturn ==
    /\ qt_pc = "emitted"
    /\ combat' = [combat EXCEPT !.active = FALSE, !.last_damage_time = -1]
    /\ qt_pc' = "idle"
    /\ UNCHANGED <<timers, reg_op, now, pending_cast, last_entry_was_cast, learned_items,
                   item_cast_times, disk_items, last_timestamp, res, ended_snapshots,
                   parser_vars, scan_vars, count_vars, duration_vars, ext_vars>>

\* the GUI thread: _on_update removes the expired timers
OnUpdate ==
    /\ qt_pc = "idle"
    /\ timers' = CheckExpired(timers, now)
    /\ UNCHANGED <<reg_op, panel_vars, parser_vars, scan_vars, qt_vars, count_vars,
                   duration_vars, ext_vars>>

\* the GUI thread: "Clear all timers" of the context menu
ContextMenuClear ==
    /\ qt_pc = "idle"
    /\ timers' = TimerClear(timers)
    /\ UNCHANGED <<reg_op, panel_vars, parser_vars, scan_vars, qt_vars, count_vars,
                   duration_vars, ext_vars>>

\* the wall clock advances
ClockTick ==
    /\ now < MaxClock
    /\ now' = now + 1
    /\ UNCHANGED <<timers, reg_op, pending_cast, last_entry_was_cast, learned_items,
                   item_cast_times, disk_items, combat, last_timestamp, res,
                   parser_vars, scan_vars, qt_vars, count_vars, duration_vars, ext_vars>>

NextCombat ==
    \/ \E m \in CombatMessages : IngestEntry(LogEntry(now, m))
    \/ CheckCombatTimeout
    \/ EndCombatReturn
    \/ ClockTick

SpecCombat == Init /\ [][NextCombat]_vars

NextLive ==
    \/ \E m \in LiveMessages : IngestEntry(LogEntry(now, m))
    \/ OnUpdate
    \/ ContextMenuClear
    \/ Tick

SpecLive == Init /\ [][NextLive]_vars

-----------------------------------------------------------------------------
(* Properties of the dispatch of _process_log_entry, checked under SpecLive *)

\* C11 as stated: only the first handler that matches an entry acts on the
\* state.  An entry handled as a cast-on-other landing is not also handled as a
\* buff warning, damage or slain entry, and an entry handled as death or as a
\* cast failure is handled as nothing else.
C11_FirstMatchWins ==
    [][LET e == LogEntry(last_timestamp', res'.message) IN
          (/\ res'.message \in LiveMessages
           /\ ProcessLogEntry(e))
          => /\ res'.matched_at > 0 =>
                   /\ combat' = combat
                   /\ res'.dps = <<>>
             /\ IsDeath(e.message) =>
                   /\ pending_cast' = pending_cast
                   /\ res'.matched_at = 0
             /\ IsCastFailure(e.message) =>
                   /\ timers' = timers
                   /\ combat' = combat
                   /\ res'.matched_at = 0
      ]_vars

C16_CastFailureClears ==
    [][LET e == LogEntry(last_timestamp', res'.message) IN
          (/\ IsCastFailure(res'.message)
           /\ ProcessLogEntry(e))
          => /\ pending_cast' = <<>>
             /\ timers' = timers
             /\ combat' = combat
             /\ res'.dps = <<>>
             /\ learned_items' = learned_items
      ]_vars

\* a cast failure cleared a pending cast that carried an item, in a fight and
\* with a timer running
C16_Witness ==
    /\ res.message.kind = "cast_failure"
    /\ res.prev_item = "I1"
    /\ pending_cast = <<>>
    /\ timers # EmptyRegistry
    /\ combat.active

\* C20 as stated: the pending cast, the timer registry and the combat session
\* change only in steps of the ingestion path that processes a log entry.
C20_SingleIngestionPath ==
    [][(pending_cast' # pending_cast \/ timers' # timers \/ combat' # combat)
       => ProcessLogEntry(LogEntry(last_timestamp', res'.message))
      ]_vars

-----------------------------------------------------------------------------
(* Properties of the combat aggregator, checked under SpecCombat *)

\* C12: combat accumulation.  An add-damage while no session is active starts
\* a session at the current time from empty totals and an empty target set;
\* every add-damage adds its amount to its attacker's total, leaves the other
\* totals alone and adds its non-empty target to the target set; no other step
\* changes the totals or the targets.  So within a session each total is the
\* sum of that attacker's amounts and nothing of an ended session is carried
\* over.
C12_CombatAccumulation ==
    [][LET e == LogEntry(last_timestamp', res'.message)
           m == res'.message
           a == Attacker(m)
           old == IF combat.active THEN combat ELSE NoCombat
       IN IF m.kind \in DamageKinds /\ ProcessLogEntry(e)
          THEN /\ combat'.active
               /\ combat'.start = IF combat.active THEN combat.start ELSE now
               /\ combat'.last_damage_time = now
               /\ DOMAIN combat'.damage = DOMAIN old.damage \cup {a}
               /\ combat'.damage[a] = DamageOf(old, a) + m.amount
               /\ \A k \in DOMAIN old.damage \ {a} : combat'.damage[k] = old.damage[k]
               /\ combat'.targets =
                     old.targets \cup (IF m.target # "" THEN {m.target} ELSE {})
               /\ res'.dps # <<>>
               /\ res'.dps[1].damage = combat'.damage
               /\ ~res'.dps[1].ended
          ELSE /\ combat'.damage = combat.damage
               /\ combat'.targets = combat.targets
      ]_vars

\* a second session holds only its own damage: the first one, in which "You"
\* did damage, was ended, and Bob alone has hit since
C12_Witness ==
    /\ res.message.kind = "other_damage"
    /\ combat.active
    /\ combat.start > 0
    /\ combat.damage = [k \in {"Bob"} |-> 2]
    /\ combat.targets = {"rat"}
    /\ last_timestamp = combat.last_damage_time

\* C13 as stated: for each combat session a snapshot with ended=true is
\* emitted exactly once, whatever ends it and however many end triggers
\* follow; check-timeout ends a session only when now minus the last damage
\* time strictly exceeds the timeout; an ended session stays inactive until the
\* next add-damage.
C13_EndExactlyOnce ==
    [][/\ ended_snapshots' <= 1
       /\ (combat.active /\ ~combat'.active) => ended_snapshots' = 1
       /\ (~combat.active /\ combat'.active) => res'.message.kind \in DamageKinds
       /\ (qt_pc = "idle" /\ qt_pc' = "emitted") =>
             now - combat.last_damage_time > CombatTimeout
      ]_vars

-----------------------------------------------------------------------------
(* LogWatcher.load_chat_history: the backward scan bounded by message counts. *)
(* A line of the file is [len, ts, line]: its length in bytes, the timestamp  *)
(* parse_line reads from it (the line number: the log is written in order)    *)
(* and the chat line parse_chat_message classifies.                           *)

FixedChannels == {"GUILD", "OOC", "GROUP", "SHOUT", "AUCTION"}

\* the values max_channel_msgs and max_dm_convos are called with
ChannelQuotas == {0, 1, 2}

PartnerQuotas == {0, 1}

\* the lines of the chat log: [len, line]
ScanLines ==
    {[len |-> 1, line |-> ChatLine(k, "Bob", "", <<"hi">>, 0, 0, 0)] :
        k \in {"guild_in", "say_in", "tell_in"}}
    \cup {[len |-> 1, line |-> ChatLine("tell_in", "me", "", <<"hi">>, 0, 0, 0)],
          [len |-> 1, line |-> ChatLine("roller", "Bob", "", <<>>, 0, 0, 0)],
          [len |-> 1, line |-> ChatLine("result", "", "", <<>>, 0, 2, 1)],
          [len |-> 2, line |-> ChatLine("other", "", "", <<"hi">>, 0, 0, 0)]}

\* one message on each of the five counted channels
ChannelRound ==
    [i \in 1..5 |->
        [len |-> 1,
         line |-> ChatLine(<<"guild_in", "ooc_in", "group_in", "shout_in", "auction_in">>[i],
                           "Bob", "", <<"hi">>, 0, 0, 0)]]

\* the line of ScanLines of the given kind and sender
ScanLine(kind, sender) ==
    CHOOSE l \in ScanLines : l.line.kind = kind /\ l.line.sender = sender

\* logs long enough to fill the quotas: a line, one or two rounds on the five
\* counted channels, and possibly a say or a tell as the newest line
QuotaLogs ==
    {head \o rounds \o tail :
        head \in {<<ScanLine("other", "")>>, <<ScanLine("say_in", "Bob")>>,
                  <<ScanLine("guild_in", "Bob")>>},
        rounds \in {ChannelRound, ChannelRound \o ChannelRound},
        tail \in {<<>>, <<ScanLine("say_in", "Bob")>>, <<ScanLine("tell_in", "Bob")>>}}

\* the lines get their timestamps in file order
Stamped(ls) == [i \in 1..Len(ls) |-> [len |-> ls[i].len, ts |-> i, line |-> ls[i].line]]

ChatFiles ==
    {Stamped(ls) : ls \in UNION {[1..n -> ScanLines] : n \in 0..MaxLines} \cup QuotaLogs}

\* the parser fields parse_chat_message reads and writes
ParserState(roller, flag) == [pending_roller |-> roller, last_was_die_roll |-> flag]

RECURSIVE ReadChunk(_, _, _, _)
\* "while f.tell() < end_pos": parse_line and parse_chat_message on each line
\* from pos on; gives the parser state left behind and chunk_messages
ReadChunk(f, ps, pos, stop) ==
    IF pos >= stop \/ pos >= FileSize(f) THEN [ps |-> ps, msgs |-> <<>>]
    ELSE LET i == CHOOSE j \in 1..Len(f) : LineStart(f, j) = pos
             r == ParseChatMessage(ps, LogEntry(f[i].ts, f[i].line))
             rest == ReadChunk(f, ParserState(r.pending_roller, r.last_was_die_roll),
                               LineStart(f, i + 1), stop)
         IN [ps |-> rest.ps, msgs |-> r.out \o rest.msgs]

\* dict.get(channel, 0)
CountOf(counts, channel) == IF channel \in DOMAIN counts THEN counts[channel] ELSE 0

\* have_enough()
HaveEnough(counts, dms, maxc, maxd) ==
    /\ \A c \in DOMAIN counts : counts[c] >= maxc
    /\ Cardinality(dms) >= maxd

\* the body of "for msg in reversed(chunk_messages)" for one message, on
\* acc = [counts, dms, msgs]
CountMessage(acc, msg, maxc, maxd) ==
    IF msg.channel = "TELL"
    THEN LET target == Lower(msg.tell_target)
         IN IF target \in acc.dms \/ Cardinality(acc.dms) < maxd
            THEN [acc EXCEPT !.dms = @ \cup {target}, !.msgs = Append(@, msg)]
            ELSE acc
    ELSE IF CountOf(acc.counts, msg.channel) < maxc
         THEN [acc EXCEPT
                 !.counts = (msg.channel :> (CountOf(acc.counts, msg.channel) + 1)) @@ @,
                 !.msgs = Append(@, msg)]
         ELSE acc

RECURSIVE CountChunk(_, _, _, _, _)
\* for msg in reversed(chunk_messages): from message i down to the first
CountChunk(acc, chunk_messages, i, maxc, maxd) ==
    IF i = 0 THEN acc
    ELSE CountChunk(CountMessage(acc, chunk_messages[i], maxc, maxd),
                    chunk_messages, i - 1, maxc, maxd)

\* messages.reverse()
Reverse(s) == [i \in 1..Len(s) |-> s[Len(s) + 1 - i]]

InitChatScan ==
    /\ file \in ChatFiles
    /\ chunk_size \in 1..MaxChunk
    /\ cutoff = 0
    /\ scan_pc = "chat"
    /\ end_pos = FileSize(file)
    /\ start_read_pos = 0
    /\ entries = <<>>
    /\ max_channel_msgs \in ChannelQuotas
    /\ max_dm_convos \in PartnerQuotas
    /\ channel_counts = [c \in FixedChannels |-> 0]
    /\ dm_conversations = {}
    /\ messages = <<>>

\* one round of "while end_pos > 0 and not have_enough()"
ChatScanChunk ==
    /\ scan_pc = "chat"
    /\ end_pos > 0
    /\ ~HaveEnough(channel_counts, dm_conversations, max_channel_msgs, max_dm_convos)
    /\ LET start_pos == Max(0, end_pos - chunk_size)
           chunk_start == IF start_pos > 0 THEN AfterReadline(file, start_pos)
                          ELSE start_pos
           chunk == ReadChunk(file, ParserState(pending_roller, last_was_die_roll),
                              chunk_start, end_pos)
           acc == CountChunk([counts |-> channel_counts, dms |-> dm_conversations,
                              msgs |-> messages],
                             chunk.msgs, Len(chunk.msgs), max_channel_msgs, max_dm_convos)
       IN /\ pending_roller' = chunk.ps.pending_roller
          /\ last_was_die_roll' = chunk.ps.last_was_die_roll
          /\ channel_counts' = acc.counts
          /\ dm_conversations' = acc.dms
          /\ messages' = acc.msgs
          /\ end_pos' = chunk_start
    /\ UNCHANGED <<timers, reg_op, panel_vars, chat_last, chat_out, file, chunk_size,
                   cutoff, scan_pc, start_read_pos, entries, qt_vars,
                   max_channel_msgs, max_dm_convos, duration_vars, ext_vars>>

\* the loop is left: messages.reverse(); return messages
ChatScanReturn ==
    /\ scan_pc = "chat"
    /\ ~(/\ end_pos > 0
         /\ ~HaveEnough(channel_counts, dm_conversations, max_channel_msgs, max_dm_convos))
    /\ messages' = Reverse(messages)
    /\ scan_pc' = "done"
    /\ UNCHANGED <<timers, reg_op, panel_vars, parser_vars, file, chunk_size, cutoff,
                   end_pos, start_read_pos, entries, qt_vars, max_channel_msgs,
                   max_dm_convos, channel_counts, dm_conversations, duration_vars, ext_vars>>

NextChatScan == ChatScanChunk \/ ChatScanReturn

\* the watcher is constructed and load_chat_history is called
InitChatHistory ==
    /\ InitPanel /\ InitRegistryIdle /\ InitParserIdle /\ InitChatScan
    /\ InitDurationIdle
    /\ InitExtIdle

SpecChatScan == InitChatHistory /\ [][NextChatScan]_vars

\* the messages a single forward pass of the parser over the whole file gives
ForwardChat(f) == ReadChunk(f, ParserState("", FALSE), 0, FileSize(f)).msgs

\* the messages of s on one channel, in the order of s
OnChannel(s, channel) == SelectSeq(s, LAMBDA m : m.channel = channel)

\* s is the newest part of t: its last Len(s) elements
IsNewestOf(s, t) ==
    /\ Len(s) <= Len(t)
    /\ \A i \in 1..Len(s) : s[i] = t[Len(t) - Len(s) + i]

\* the partners of the tells of s, as the scan names them
Partners(s) == {Lower(s[i].tell_target) : i \in {j \in 1..Len(s) : s[j].channel = "TELL"}}

\* the timestamp of the newest tell of s with the partner, 0 when there is none
LastTell(s, partner) ==
    LET at == {s[i].timestamp :
                 i \in {j \in 1..Len(s) : /\ s[j].channel = "TELL"
                                          /\ Lower(s[j].tell_target) = partner}}
    IN IF at = {} THEN 0 ELSE CHOOSE t \in at : \A u \in at : u <= t

-----------------------------------------------------------------------------
(* Properties of load_chat_history, checked under SpecChatScan *)

Channels == FixedChannels \cup {"TELL", "SAY", "RANDOM"}

\* C17 as stated: load_chat_history returns its messages in oldest-first file
\* order; for every non-tell channel it returns at most max_channel_msgs
\* messages and they are the newest messages of that channel in the file; tells
\* are returned for at most max_dm_convos distinct partners, the most recently
\* active ones.
C17_CountBoundedResult ==
    scan_pc = "done" =>
        LET inFile == ForwardChat(file) IN
        /\ \A i, j \in 1..Len(messages) :
              i < j => messages[i].timestamp < messages[j].timestamp
        /\ \A c \in Channels \ {"TELL"} :
              /\ Len(OnChannel(messages, c)) <= max_channel_msgs
              /\ IsNewestOf(OnChannel(messages, c), OnChannel(inFile, c))
        /\ Cardinality(Partners(messages)) <= max_dm_convos
        /\ \A p \in Partners(messages) :
              \A q \in Partners(inFile) \ Partners(messages) :
                 LastTell(inFile, q) < LastTell(inFile, p)

\* the stop condition of the scan as the five counted channels and the tell
\* partners give it
CountersSatisfied ==
    /\ \A c \in FixedChannels : CountOf(channel_counts, c) >= max_channel_msgs
    /\ Cardinality(dm_conversations) >= max_dm_convos

\* C18 as stated: load_chat_history reads no further chunk as soon as, at a
\* chunk boundary, each of the counters of guild, ooc, group, shout and auction
\* has reached max_channel_msgs and the number of distinct tell partners has
\* reached max_dm_convos, whatever other channels were seen; otherwise it
\* goes on until the file start.
C18_StopCondition ==
    [][scan_pc = "chat" =>
          /\ ChatScanChunk => ~CountersSatisfied
          /\ ChatScanReturn => (CountersSatisfied \/ end_pos <= 0)
      ]_vars

\* no quota binds: every message of the file fits in its counter
QuotasDoNotBind ==
    LET inFile == ForwardChat(file) IN
    /\ \A c \in Channels \ {"TELL"} : Len(OnChannel(inFile, c)) <= max_channel_msgs
    /\ Cardinality(Partners(inFile)) <= max_dm_convos

\* C19 as stated: when the quotas do not bind and the scan reaches the file
\* start, the messages load_chat_history returns are exactly those of a single
\* forward pass of the parser over the whole file, each once and in the same
\* order, wherever the chunk boundaries fall.
C19_ChunkBoundaries ==
    (scan_pc = "done" /\ end_pos <= 0 /\ QuotasDoNotBind) => messages = ForwardChat(file)

-----------------------------------------------------------------------------
(* LogWatcher.watch run by the watcher thread, and the main thread that runs  *)
(* the history backfill, starts the thread and calls stop().  The game        *)
(* appends lines to the log all along.  A step of the watcher thread is one   *)
(* statement of watch() or one stage of _process_line.                        *)

MaxLog == 3          \* lines the game writes to the log

\* every other component at rest
InitRest ==
    /\ InitPanel /\ InitRegistryIdle /\ InitParserIdle /\ InitScanIdle
    /\ InitCountIdle /\ InitDurationIdle

InitWatch ==
    /\ InitRest
    /\ InitWatchIdle /\ InitStoreIdle /\ InitReplayIdle /\ InitCatalogIdle
    /\ InitMatchIdle /\ InitUiIdle /\ InitWhoIdle

\* what the steps of this section leave alone
WatchFrame ==
    UNCHANGED <<timers, reg_op, panel_vars, parser_vars, scan_vars, qt_vars, count_vars,
                duration_vars, store_vars, replay_vars, catalog_vars, match_vars, ui_vars,
                who_vars>>

\* the game writes a line
AppendLine ==
    /\ log_size < MaxLog
    /\ log_size' = log_size + 1
    /\ UNCHANGED <<replayed, watch_pc, running, stop_requested, watch_pos, cur_line,
                   delivered, classified>>
    /\ WatchFrame

\* main: timer_panel.load_history() / load_chat_history() reads the file as it
\* is, before the watcher thread is started
Backfill ==
    /\ watch_pc = "idle"
    /\ replayed = {}
    /\ ~stop_requested
    /\ replayed' = 1..log_size
    /\ UNCHANGED <<log_size, watch_pc, running, stop_requested, watch_pos, cur_line,
                   delivered, classified>>
    /\ WatchFrame

\* main: threading.Thread(target=watcher.watch, daemon=True).start()
StartThread ==
    /\ watch_pc = "idle"
    /\ ~stop_requested
    /\ watch_pc' = "started"
    /\ UNCHANGED <<log_size, replayed, running, stop_requested, watch_pos, cur_line,
                   delivered, classified>>
    /\ WatchFrame

\* main (SIGINT handler, character change): watcher.stop()
Stop ==
    /\ watch_pc # "idle"
    /\ ~stop_requested
    /\ running' = FALSE
    /\ stop_requested' = TRUE
    /\ UNCHANGED <<log_size, replayed, watch_pc, watch_pos, cur_line, delivered,
                   classified>>
    /\ WatchFrame

\* watch(): the file exists; self._running = True
WatchSetRunning ==
    /\ watch_pc = "started"
    /\ running' = TRUE
    /\ watch_pc' = "open"
    /\ UNCHANGED <<log_size, replayed, stop_requested, watch_pos, cur_line, delivered,
                   classified>>
    /\ WatchFrame

\* a live tail that starts at the beginning of the file
SeekToStart(size) == 0

\* f.seek(0, 2)
SeekToEnd(size) == size

\* watch(): open the file and seek to its end
WatchSeek ==
    /\ watch_pc = "open"
    /\ watch_pos' = SeekToEnd(log_size)
    /\ watch_pc' = "check"
    /\ UNCHANGED <<log_size, replayed, running, stop_requested, cur_line, delivered,
                   classified>>
    /\ WatchFrame

\* watch(): while self._running
WatchCheck ==
    /\ watch_pc = "check"
    /\ watch_pc' = IF running THEN "read" ELSE "exited"
    /\ UNCHANGED <<log_size, replayed, running, stop_requested, watch_pos, cur_line,
                   delivered, classified>>
    /\ WatchFrame

\* watch(): line = f.readline(); no line: sleep and continue
WatchRead ==
    /\ watch_pc = "read"
    /\ IF watch_pos < log_size
       THEN /\ cur_line' = watch_pos + 1
            /\ watch_pos' = watch_pos + 1
            /\ watch_pc' = "callbacks"
       ELSE /\ watch_pc' = "check"
            /\ UNCHANGED <<cur_line, watch_pos>>
    /\ UNCHANGED <<log_size, replayed, running, stop_requested, delivered, classified>>
    /\ WatchFrame

\* _process_line: for callback in self._on_entry_callbacks: callback(entry)
WatchCallbacks ==
    /\ watch_pc = "callbacks"
    /\ delivered' = Append(delivered, cur_line)
    /\ watch_pc' = "chat"
    /\ UNCHANGED <<log_size, replayed, running, stop_requested, watch_pos, cur_line,
                   classified>>
    /\ WatchFrame

\* _process_line: parse_chat_message / parse_who, then back to the loop test
WatchChat ==
    /\ watch_pc = "chat"
    /\ classified' = Append(classified, cur_line)
    /\ cur_line' = 0
    /\ watch_pc' = "check"
    /\ UNCHANGED <<log_size, replayed, running, stop_requested, watch_pos, delivered>>
    /\ WatchFrame

\* the steps of the watcher thread
WatcherThread ==
    \/ WatchSetRunning
    \/ WatchSeek
    \/ WatchCheck
    \/ WatchRead
    \/ WatchCallbacks
    \/ WatchChat

NextWatch ==
    \/ AppendLine
    \/ Backfill
    \/ StartThread
    \/ Stop
    \/ WatcherThread

\* the scheduler runs the watcher thread whenever it can take a step
SpecWatch == InitWatch /\ [][NextWatch]_vars /\ WF_vars(WatcherThread)

\* the indices of a sequence of lines
LinesOf(s) == {s[i] : i \in 1..Len(s)}

\* C21 as stated: for every interleaving of stop() with the watcher thread,
\* also when stop() comes right after the thread is started, the watch loop
\* exits eventually under fair scheduling; and the stop flag is looked at only
\* when no line is in flight, each line read having gone through the callbacks
\* and then the chat classification.
C21_CooperativeCancellation ==
    /\ stop_requested ~> (watch_pc = "exited")
    /\ [][WatchCheck => (cur_line = 0 /\ delivered = classified)]_vars

\* C22: no double ingestion.  With the backfill finished before the watcher
\* thread starts, no line is delivered by the backfill and by the live tail.
C22_NoDoubleIngestion == replayed \cap LinesOf(delivered) = {}

\* lines were replayed, more were written, and the live tail delivered one
C22_Witness ==
    /\ replayed # {}
    /\ delivered # <<>>
    /\ watch_pc = "check"

-----------------------------------------------------------------------------
(* ConversationManager: add_message and prepend_message on _conversations.    *)
(* A conversation id is <<channel value>> or <<"tell", partner in lower case>>. *)

MaxMessages == 2     \* chat.max_messages_per_convo

\* the conversations __init__ creates
DefaultConversations == {<<"guild">>, <<"ooc">>, <<"group">>, <<"shout">>, <<"auction">>,
                         <<"random">>, <<"who">>}

\* the messages handed to the store: guild messages at three times, one of
\* them also as an outgoing copy; tells with Bob under two spellings; a tell
\* without a partner and a say message, which have no conversation
StoreMessages ==
    {ChatMessage(ts, "GUILD", "Bob", <<"hi">>, FALSE, "") : ts \in 0..2}
    \cup {ChatMessage(0, "GUILD", "Bob", <<"hi">>, TRUE, ""),
          ChatMessage(0, "TELL", "Bob", <<"hi">>, FALSE, "Bob"),
          ChatMessage(0, "TELL", "Bob", <<"hi">>, FALSE, "bob"),
          ChatMessage(1, "TELL", "You", <<"hi">>, TRUE, "Bob"),
          ChatMessage(1, "TELL", "Bob", <<"hi">>, FALSE, ""),
          ChatMessage(1, "SAY", "Bob", <<"hi">>, FALSE, "")}

\* ChannelType.value of the channels of the model
ChannelValue(channel) ==
    CASE channel = "GUILD" -> "guild" [] channel = "SAY" -> "say"
      [] channel = "TELL" -> "tell" [] OTHER -> channel

\* ChatMessage.conversation_id
ConversationId(msg) ==
    IF msg.channel = "TELL" THEN <<"tell", Lower(msg.tell_target)>>
    ELSE <<ChannelValue(msg.channel)>>

\* the conversation the message goes to, created when it is a tell with a
\* partner: [convs, id], id <<>> when there is none
FindConversation(convs, msg) ==
    IF msg.channel = "TELL"
    THEN IF msg.tell_target = "" THEN [convs |-> convs, id |-> <<>>]
         ELSE LET id == <<"tell", Lower(msg.tell_target)>>
              IN [convs |-> IF id \in DOMAIN convs THEN convs ELSE (id :> <<>>) @@ convs,
                  id |-> id]
    ELSE LET id == <<ChannelValue(msg.channel)>>
         IN [convs |-> convs, id |-> IF id \in DOMAIN convs THEN id ELSE <<>>]

\* the duplicate test of add_message and prepend_message
SameMessage(existing, msg) ==
    /\ existing.timestamp = msg.timestamp
    /\ existing.sender = msg.sender
    /\ existing.content = msg.content

\* a store that appends whatever it is given
IsDuplicateNever(held, msg) == FALSE

\* for existing in conv.messages: equal timestamp, sender and content
IsDuplicate(held, msg) == \E i \in 1..Len(held) : SameMessage(held[i], msg)

\* conv.messages[-max_msgs:]
LastN(s, n) == IF n = 0 \/ Len(s) <= n THEN s ELSE SubSeq(s, Len(s) - n + 1, Len(s))

\* ConversationManager.add_message
AddMessageTo(convs, msg) ==
    LET f == FindConversation(convs, msg)
    IN IF f.id = <<>> THEN f.convs
       ELSE IF IsDuplicate(f.convs[f.id], msg) THEN f.convs
       ELSE LET appended == Append(f.convs[f.id], msg)
            IN [f.convs EXCEPT ![f.id] =
                   IF Len(appended) > MaxMessages THEN LastN(appended, MaxMessages)
                   ELSE appended]

\* ConversationManager.prepend_message
PrependMessageTo(convs, msg) ==
    LET f == FindConversation(convs, msg)
    IN IF f.id = <<>> THEN f.convs
       ELSE IF IsDuplicate(f.convs[f.id], msg) THEN f.convs
       ELSE [f.convs EXCEPT ![f.id] = <<msg>> \o @]

StoreFrame ==
    UNCHANGED <<timers, reg_op, panel_vars, parser_vars, scan_vars, qt_vars, count_vars,
                duration_vars, watch_vars, replay_vars, catalog_vars, match_vars, ui_vars,
                who_vars>>

add_message(msg) ==
    /\ conversations' = AddMessageTo(conversations, msg)
    /\ store_op' = [op |-> "add", msg |-> msg]
    /\ StoreFrame

prepend_message(msg) ==
    /\ conversations' = PrependMessageTo(conversations, msg)
    /\ store_op' = [op |-> "prepend", msg |-> msg]
    /\ StoreFrame

NextStore ==
    \/ \E msg \in StoreMessages : add_message(msg)
    \/ \E msg \in StoreMessages : prepend_message(msg)

\* ConversationManager.__init__
InitStore ==
    /\ InitRest
    /\ InitWatchIdle /\ InitReplayIdle /\ InitCatalogIdle /\ InitMatchIdle /\ InitUiIdle /\ InitWhoIdle
    /\ conversations = [c \in DefaultConversations |-> <<>>]
    /\ store_op = [op |-> "none"]

SpecStore == InitStore /\ [][NextStore]_vars

\* no conversation holds two messages equal in timestamp, sender and content
NoDuplicates ==
    \A c \in DOMAIN conversations :
       \A i, j \in 1..Len(conversations[c]) :
          i # j => ~SameMessage(conversations[c][i], conversations[c][j])

\* C23: duplicate suppression at the chat store.  After any sequence of
\* add_message and prepend_message calls no conversation holds two messages
\* with equal (timestamp, sender, content), and a call with a message equal in
\* those three fields to one already held leaves the conversation unchanged.
C23_DuplicateSuppression ==
    /\ []NoDuplicates
    /\ [][\A msg \in StoreMessages :
            ((add_message(msg) \/ prepend_message(msg))
             /\ ConversationId(msg) \in DOMAIN conversations
             /\ IsDuplicate(conversations[ConversationId(msg)], msg))
            => conversations' = conversations]_vars

\* the outgoing copy of a guild message already held was prepended and dropped
C23_Witness ==
    /\ store_op = [op |-> "prepend", msg |-> ChatMessage(0, "GUILD", "Bob", <<"hi">>, TRUE, "")]
    /\ conversations[<<"guild">>] =
          <<ChatMessage(0, "GUILD", "Bob", <<"hi">>, FALSE, ""),
            ChatMessage(2, "GUILD", "Bob", <<"hi">>, FALSE, "")>>

-----------------------------------------------------------------------------
(* TimerPanel.load_history against the live path: the same entries are        *)
(* replayed as history at startup and then processed one by one by            *)
(* _process_log_entry.  The entries carry the time of the wall clock, which   *)
(* stands still, so that no timer expires.                                    *)

MaxReplay == 3       \* entries of the replayed log

\* the lines of the replayed log
ReplayMessages ==
    { Msg("death", "", <<>>), Msg("casting", "A", <<>>), Msg("item_glow", "I1", <<>>),
      Msg("other", "", <<"f">>), Msg("other", "", <<"y">>),
      Msg("other", "", <<"b", "t", "s">>) }

\* the locals of load_history before the loop: active, pending_item_spell
\* ("" = None), pending_item_time
NoHistory == [active |-> EmptyRegistry, pending_item_spell |-> "", pending_item_time |-> -1]

RECURSIVE PopAllOnYou(_, _)
\* for s in fades: active.pop((s.name, "You"), None)
PopAllOnYou(active, spells) ==
    IF spells = <<>> THEN active
    ELSE PopAllOnYou([k \in DOMAIN active \ {<<spells[1].name, You>>} |-> active[k]],
                     Tail(spells))

\* the body of "for entry in entries" of load_history
HistoryEntry(h, e, learned) ==
    LET m == e.message IN
    IF IsDeath(m) THEN [h EXCEPT !.active = EmptyRegistry, !.pending_item_spell = ""]
    ELSE IF ParseItemGlow(m) # ""
    THEN IF learned[ParseItemGlow(m)] # ""
         THEN [h EXCEPT !.pending_item_spell = learned[ParseItemGlow(m)],
                        !.pending_item_time = e.timestamp]
         ELSE h
    ELSE IF FindByFades(m.text) # <<>>
    THEN [h EXCEPT !.active = PopAllOnYou(@, FindByFades(m.text))]
    ELSE IF FindByCastOnYou(m.text) # <<>>
    THEN LET spells == FindByCastOnYou(m.text)
             pending == h.pending_item_spell # "" /\ h.pending_item_time # -1
             prefer == IF /\ pending
                          /\ WithinCastWindow(e.timestamp - h.pending_item_time)
                          /\ HasSpellNamed(spells, h.pending_item_spell)
                       THEN h.pending_item_spell ELSE ""
             h1 == IF pending THEN [h EXCEPT !.pending_item_spell = ""] ELSE h
             spell == BestMatch(spells, prefer)[1]
         IN IF GetDurationSeconds(spell, Level) > 0
            THEN [h1 EXCEPT !.active =
                    (<<spell.name, You>> :>
                        [cast_time |-> e.timestamp, spell |-> spell, is_self |-> FALSE])
                    @@ @]
            ELSE h1
    ELSE h

RECURSIVE HistoryLoop(_, _, _, _)
HistoryLoop(h, entries_seq, i, learned) ==
    IF i > Len(entries_seq) THEN h
    ELSE HistoryLoop(HistoryEntry(h, entries_seq[i], learned), entries_seq, i + 1, learned)

\* "Create timers from history": the registry after the adds; no logout or
\* zone period lies in the log
HistoryTimers(active, clock) ==
    LET live == {k \in DOMAIN active :
                    GetDurationSeconds(active[k].spell, Level)
                       - (clock - active[k].cast_time) > 0}
    IN [k \in live |->
          LET duration == GetDurationSeconds(active[k].spell, Level)
              remaining == duration - (clock - active[k].cast_time)
          IN ActiveTimer(active[k].spell.name, k[2], clock + remaining, duration,
                         LandingCategory(active[k].is_self))]

ReplayFrame ==
    UNCHANGED <<timers, reg_op, panel_vars, parser_vars, scan_vars, qt_vars, count_vars,
                duration_vars, watch_vars, store_vars, catalog_vars, match_vars, ui_vars,
                who_vars>>

\* TimerPanel.load_history, at startup, on the entries of the log
LoadHistory ==
    /\ history_timers = <<>>
    /\ replay_pos = 0
    /\ history_timers' =
          <<HistoryTimers(HistoryLoop(NoHistory,
                                      [i \in 1..Len(replay_log) |-> LogEntry(now, replay_log[i])],
                                      1, learned_items).active, now)>>
    /\ UNCHANGED <<replay_log, replay_pos>>
    /\ ReplayFrame

\* the live path is given the next entry of the same log
LiveEntry ==
    /\ history_timers # <<>>
    /\ replay_pos < Len(replay_log)
    /\ ProcessLogEntry(LogEntry(now, replay_log[replay_pos + 1]))

NextReplay == LoadHistory \/ LiveEntry

InitReplay ==
    /\ InitRest
    /\ InitWatchIdle /\ InitStoreIdle /\ InitCatalogIdle /\ InitMatchIdle /\ InitUiIdle /\ InitWhoIdle
    /\ replay_log \in UNION {[1..n -> ReplayMessages] : n \in 0..MaxReplay}
    /\ replay_pos = 0
    /\ history_timers = <<>>

SpecReplay == InitReplay /\ [][NextReplay]_vars

\* C24 as stated: for every sequence of log entries, the timers load_history
\* rebuilds from them have the same (spell, target) keys and the same
\* categories as the timers the live path holds after processing the same
\* entries in the same order.
C24_HistoryEquivalence ==
    (history_timers # <<>> /\ replay_pos = Len(replay_log)) =>
        /\ DOMAIN history_timers[1] = DOMAIN timers
        /\ \A k \in DOMAIN timers : history_timers[1][k].category = timers[k].category

-----------------------------------------------------------------------------
(* SpellDatabase.__init__ and _load: the whitelist and the spell file are    *)
(* read once, the tables are built from them.                                 *)

MaxFile == 3         \* lines of the spell file

Spell(id, name, replaced_by, expansion) ==
    [id |-> id, name |-> name, cast_on_you |-> <<"y">>, cast_on_other |-> <<"t", "s">>,
     spell_fades |-> IF name = "Z" THEN <<>> ELSE <<"f">>,
     duration_formula |-> 7, duration_base |-> 0,
     beneficial |-> TRUE, replaced_by |-> replaced_by, replacement_expansion |-> expansion]

\* a line of spells_us.txt: kind "record" is a line of 85 or more fields whose
\* numeric fields are numbers, "short" one of fewer than 85 fields, "bad_int"
\* one of 85 fields with a duration field that is no number, "blank" an empty
\* line.  The spell ids of a file are distinct.
FileLine(kind, spell) == [kind |-> kind, spell |-> spell]

SpellFileLines ==
    { FileLine("blank", Spell(0, "", 0, "")),
      FileLine("short", Spell(1, "Z", 0, "")),
      FileLine("bad_int", Spell(2, "O", 0, "")),
      FileLine("record", Spell(3, "A", 0, "")),
      FileLine("record", Spell(4, "A", 9, "Kunark")),
      FileLine("record", Spell(5, "O", 9, "Luclin")),
      FileLine("record", Spell(6, "Z", 0, "")),
      FileLine("record", Spell(7, "GM Focus", 0, "")) }

\* the whitelist file: <<>> when none is configured or it does not exist,
\* else <<the names in it>>
Whitelists == { <<>>, <<{}>>, <<{"A"}>>, <<{"A", "O", "GM Focus"}>> }

\* "GM" in name
ContainsGM(name) == name \in {"GM Focus"}

\* a validity test that forgets the whitelist
IsValidIgnoringWhitelist(wl, spell) == IsValidForP99(spell)

\* SpellDatabase._is_valid_for_p99 with self._whitelist = wl
IsValidWithWhitelist(wl, spell) ==
    IF wl # <<>> /\ spell.name \notin wl[1] THEN FALSE
    ELSE IF spell.replaced_by = 0 THEN TRUE
    ELSE IF spell.replacement_expansion \in P99_EXPANSIONS THEN FALSE
    ELSE TRUE

\* the reading loop of _load: all_spells, in file order
ParseFile(lines_of_file) ==
    LET kept == SelectSeq(lines_of_file, LAMBDA l : l.kind = "record" /\ ~ContainsGM(l.spell.name))
    IN [i \in 1..Len(kept) |-> kept[i].spell]

\* a dict filled by d[key(s)] = s for s in spells, in order
LastByKey(spells, Key(_)) ==
    [k \in {Key(spells[i]) : i \in 1..Len(spells)} |->
        spells[CHOOSE i \in 1..Len(spells) :
                  /\ Key(spells[i]) = k
                  /\ \A j \in (i + 1)..Len(spells) : Key(spells[j]) # k]]

\* a dict of lists filled by d[key(s)].append(s) for the s with a key
ListsByKey(spells, Key(_)) ==
    [k \in {Key(spells[i]) : i \in 1..Len(spells)} \ {<<>>} |->
        SelectSeq(spells, LAMBDA s : Key(s) = k)]

\* SpellDatabase._load: the tables after the file has been read
LoadTables(lines_of_file, wl) ==
    LET all_spells == ParseFile(lines_of_file)
        valid == SelectSeq(all_spells, LAMBDA s : IsValidWithWhitelist(wl, s))
    IN [loaded |-> TRUE,
        by_id |-> LastByKey(all_spells, LAMBDA s : s.id),
        by_name |-> LastByKey(valid, LAMBDA s : s.name),
        by_cast_on_you |-> ListsByKey(valid, LAMBDA s : s.cast_on_you),
        by_cast_on_other |-> ListsByKey(valid, LAMBDA s : s.cast_on_other),
        by_fades |-> ListsByKey(valid, LAMBDA s : s.spell_fades)]

CatalogFrame ==
    UNCHANGED <<timers, reg_op, panel_vars, parser_vars, scan_vars, qt_vars, count_vars,
                duration_vars, watch_vars, store_vars, replay_vars, match_vars, ui_vars, who_vars>>

\* SpellDatabase.__init__
LoadCatalog ==
    /\ ~db.loaded
    /\ db' = LoadTables(spells_file, whitelist)
    /\ UNCHANGED <<spells_file, whitelist>>
    /\ CatalogFrame

NextCatalog == LoadCatalog

InitCatalog ==
    /\ InitRest
    /\ InitWatchIdle /\ InitStoreIdle /\ InitReplayIdle /\ InitMatchIdle /\ InitUiIdle /\ InitWhoIdle
    /\ spells_file \in UNION {[1..n -> SpellFileLines] : n \in 0..MaxFile}
    /\ \A i, j \in 1..Len(spells_file) :
          i # j => spells_file[i].spell.id # spells_file[j].spell.id
    /\ whitelist \in Whitelists
    /\ db = [loaded |-> FALSE]

SpecCatalog == InitCatalog /\ [][NextCatalog]_vars

\* the records reachable through the four filtered indices
Indexed ==
    {db.by_name[n] : n \in DOMAIN db.by_name}
    \cup UNION {UNION {{ix[k][i] : i \in 1..Len(ix[k])} : k \in DOMAIN ix} :
                   ix \in {db.by_cast_on_you, db.by_cast_on_other, db.by_fades}}

\* the lines of the file that parse into a record
Parsed ==
    {spells_file[i].spell : i \in {j \in 1..Len(spells_file) :
        spells_file[j].kind = "record" /\ ~ContainsGM(spells_file[j].spell.name)}}

-----------------------------------------------------------------------------
(* SpellDatabase.best_match on lists of candidates *)

MaxCandidates == 3   \* length of the candidate list

Candidate(name, formula, base) ==
    [Spell(0, name, 0, "") EXCEPT !.duration_formula = formula, !.duration_base = base]

\* Z has neither formula nor base; X has a base under formula 0, which gives no
\* ticks; E has formula 11 with base 0, which gives no ticks; A lasts
Candidates ==
    { Candidate("Z", 0, 0), Candidate("X", 0, 5), Candidate("E", 11, 0),
      Candidate("A", 7, 0) }

MatchFrame ==
    UNCHANGED <<timers, reg_op, panel_vars, parser_vars, scan_vars, qt_vars, count_vars,
                duration_vars, watch_vars, store_vars, replay_vars, catalog_vars,
                who_vars, ui_vars>>

\* a call of best_match(spells, prefer_name)
CallBestMatch ==
    /\ bm_ret = <<"pending">>
    /\ bm_ret' = <<"returned", BestMatch(bm_args.spells, bm_args.prefer_name)>>
    /\ UNCHANGED bm_args
    /\ MatchFrame

NextMatch == CallBestMatch

InitMatch ==
    /\ InitRest
    /\ InitWatchIdle /\ InitStoreIdle /\ InitReplayIdle /\ InitCatalogIdle /\ InitWhoIdle /\ InitUiIdle
    /\ bm_args \in [spells : UNION {[1..n -> Candidates] : n \in 0..MaxCandidates},
                    prefer_name : {"", "A", "X", "Q"}]
    /\ bm_ret = <<"pending">>

SpecMatch == InitMatch /\ [][NextMatch]_vars

\* the candidates with a non-zero computed duration at the configured level
Lasting(spells) == SelectSeq(spells, LAMBDA s : GetDurationSeconds(s, Level) # 0)

\* C26 as stated: for an empty list best_match returns nothing; otherwise the
\* candidate named by the preferred name when one is given and present;
\* otherwise the first candidate, in list order, whose computed duration (tick
\* formula at the configured level) is non-zero, when there is one; otherwise
\* the first candidate.
C26_BestMatchTieBreak ==
    bm_ret # <<"pending">> =>
        LET spells == bm_args.spells
            prefer == bm_args.prefer_name
        IN bm_ret[2] =
             IF spells = <<>> THEN <<>>
             ELSE IF prefer # "" /\ \E i \in 1..Len(spells) : spells[i].name = prefer
             THEN <<spells[CHOOSE i \in 1..Len(spells) :
                              /\ spells[i].name = prefer
                              /\ \A j \in 1..(i - 1) : spells[j].name # prefer]>>
             ELSE IF Lasting(spells) # <<>> THEN <<Lasting(spells)[1]>>
             ELSE <<spells[1]>>

-----------------------------------------------------------------------------
(* The learned-items file: read by _load_learned_items at construction,      *)
(* written by _save_learned_items when an item's spell is learned and when   *)
(* the panel is closed.                                                       *)

\* contents of learned_items.json when the panel is constructed
DiskChoices ==
    { NoDisk,
      [it \in Items |-> [spell_name |-> "A", cast_times_ms |-> (1000 :> 2 @@ 2000 :> 1)]],
      [it \in Items |-> [spell_name |-> "", cast_times_ms |-> (2000 :> 1)]],
      [it \in Items |-> [spell_name |-> "Z", cast_times_ms |-> [k \in {} |-> 0]]] }

\* the lines of the log that bear on item learning
LearnMessages ==
    { Msg("cast_failure", "", <<>>), Msg("casting", "A", <<>>),
      Msg("item_glow", "I1", <<>>), Msg("other", "", <<"y">>),
      Msg("other", "", <<"b", "t", "s">>) }

\* TimerPanel.closeEvent: the timers are stopped and the learned items saved
CloseEvent ==
    /\ qt_pc = "idle"
    /\ qt_pc' = "closed"
    /\ disk_items' = SaveLearnedItems(PanelState).disk_items
    /\ UNCHANGED <<timers, reg_op, now, pending_cast, last_entry_was_cast, learned_items,
                   item_cast_times, combat, last_timestamp, res, ended_snapshots,
                   parser_vars, scan_vars, count_vars, duration_vars, ext_vars>>

NextLearn ==
    \/ \E m \in LearnMessages : qt_pc = "idle" /\ IngestEntry(LogEntry(now, m))
    \/ ClockTick
    \/ CloseEvent

\* TimerPanel.__init__ with _load_learned_items reading the file
InitLearn ==
    /\ now = 0
    /\ pending_cast = <<>>
    /\ last_entry_was_cast = FALSE
    /\ timers = EmptyRegistry
    /\ disk_items \in DiskChoices
    /\ learned_items = [it \in Items |-> disk_items[it].spell_name]
    /\ item_cast_times = [it \in Items |-> BestCastTime(disk_items[it].cast_times_ms)]
    /\ combat = NoCombat
    /\ last_timestamp = 0
    /\ res = NoRes
    /\ qt_pc = "idle"
    /\ ended_snapshots = 0
    /\ InitRegistryIdle /\ InitParserIdle /\ InitScanIdle /\ InitCountIdle /\ InitDurationIdle
    /\ InitExtIdle

SpecLearn == InitLearn /\ [][NextLearn]_vars

\* the item has an entry in the file
OnDisk(disk, it) == disk[it].spell_name # "" \/ DOMAIN disk[it].cast_times_ms # {}

-----------------------------------------------------------------------------
(* LogParser.parse_who: the lines of a /who listing are gathered into one    *)
(* message.  _process_line hands it the entries parse_chat_message gave no   *)
(* message for.                                                               *)

MaxWho == 3          \* lines in the buffer
MaxWhoTime == 2      \* the log timestamps of the entries run over 0..MaxWhoTime

WhoHeaderText == "Players on EverQuest:"
WhoNoMatchText == "There are no players in EverQuest that match those who filters."
WhoTotalText == "There are 2 players in EverQuest."

WhoTexts ==
    { WhoHeaderText, "[50 Cleric] Bob (Human)", "[ANONYMOUS] Tom", WhoTotalText,
      WhoNoMatchText, "Bob tells the guild, 'hi'" }

\* WHO_HEADER.match(text)
IsWhoHeader(text) == text = WhoHeaderText

\* WHO_NO_MATCH.match(text)
IsWhoNoMatch(text) == text = WhoNoMatchText

\* text.startswith("There ")
StartsWithThere(text) == text \in {WhoTotalText, WhoNoMatchText}

\* parse_chat_message(entry) gives a message
IsChatText(text) == text = "Bob tells the guild, 'hi'"

RECURSIVE JoinLines(_)
\* "\n".join(lines)
JoinLines(lines) ==
    IF Len(lines) <= 1 THEN lines
    ELSE <<lines[1], "\n">> \o JoinLines(Tail(lines))

\* a timestamp for the block that is the one of its last line
WhoTimestampOfLastLine(block_timestamp, entry_timestamp) == entry_timestamp

\* self._who_timestamp or entry.timestamp; -1 is None
WhoTimestamp(block_timestamp, entry_timestamp) ==
    IF block_timestamp # -1 THEN block_timestamp ELSE entry_timestamp

\* LogParser.parse_who: the buffer, its timestamp and the message returned
ParseWho(lines, block_timestamp, e) ==
    IF IsWhoHeader(e.message)
    THEN [who_lines |-> <<e.message>>, who_timestamp |-> e.timestamp, out |-> <<>>]
    ELSE IF lines = <<>> /\ IsWhoNoMatch(e.message)
    THEN [who_lines |-> lines, who_timestamp |-> block_timestamp,
          out |-> <<ChatMessage(e.timestamp, "WHO", "Who", <<e.message>>, FALSE, "")>>]
    ELSE IF lines # <<>>
    THEN IF StartsWithThere(e.message)
         THEN [who_lines |-> <<>>, who_timestamp |-> -1,
               out |-> <<ChatMessage(WhoTimestamp(block_timestamp, e.timestamp), "WHO", "Who",
                                     JoinLines(Append(lines, e.message)), FALSE, "")>>]
         ELSE [who_lines |-> Append(lines, e.message), who_timestamp |-> block_timestamp,
               out |-> <<>>]
    ELSE [who_lines |-> lines, who_timestamp |-> block_timestamp, out |-> <<>>]

WhoFrame ==
    UNCHANGED <<timers, reg_op, panel_vars, parser_vars, scan_vars, qt_vars, count_vars,
                duration_vars, watch_vars, store_vars, replay_vars, catalog_vars,
                match_vars, ui_vars>>

\* _process_line, lines 107-112: "elif who_msg := self._parser.parse_who(entry)"
HandToParseWho(e) ==
    /\ ~IsChatText(e.message)
    /\ Len(who_lines) < MaxWho \/ IsWhoHeader(e.message) \/ StartsWithThere(e.message)
    /\ who_last' = e
    /\ who_lines' = ParseWho(who_lines, who_timestamp, e).who_lines
    /\ who_timestamp' = ParseWho(who_lines, who_timestamp, e).who_timestamp
    /\ who_out' = ParseWho(who_lines, who_timestamp, e).out
    /\ WhoFrame

\* _process_line on a chat line: parse_who is not called
ChatLineSkipsWho(e) ==
    /\ IsChatText(e.message)
    /\ who_last' = e
    /\ who_out' = <<>>
    /\ UNCHANGED <<who_lines, who_timestamp>>
    /\ WhoFrame

\* the entries the log can deliver next: timestamps do not go back
WhoEntries == {LogEntry(ts, text) : ts \in who_last.timestamp..MaxWhoTime, text \in WhoTexts}

NextWho == \E e \in WhoEntries : HandToParseWho(e) \/ ChatLineSkipsWho(e)

InitWho ==
    /\ InitRest
    /\ InitWatchIdle /\ InitStoreIdle /\ InitReplayIdle /\ InitCatalogIdle /\ InitMatchIdle /\ InitUiIdle
    /\ InitWhoIdle

SpecWho == InitWho /\ [][NextWho]_vars

\* the Who message with the given timestamp and lines
WhoMessage(timestamp, lines) == ChatMessage(timestamp, "WHO", "Who", JoinLines(lines), FALSE, "")

\* C28: a header line opens a buffer and emits nothing; each following line
\* handed to parse_who that is no header is appended; the first line starting
\* with the terminal phrase closes the block and emits exactly one Who message
\* whose content is all accumulated lines joined in order and whose timestamp
\* is the header's, leaving the buffer empty; a no-players-match line emits
\* its own single Who message only when no buffer is open.  A header met while
\* a buffer is open opens a new buffer.
C28_WhoBlock ==
    [][\A ts \in 0..MaxWhoTime, text \in WhoTexts :
          HandToParseWho(LogEntry(ts, text)) =>
            /\ IsWhoHeader(text) =>
                  who_lines' = <<text>> /\ who_timestamp' = ts /\ who_out' = <<>>
            /\ (~IsWhoHeader(text) /\ who_lines # <<>> /\ ~StartsWithThere(text)) =>
                  /\ who_lines' = Append(who_lines, text)
                  /\ who_timestamp' = who_timestamp
                  /\ who_out' = <<>>
            /\ (who_lines # <<>> /\ StartsWithThere(text)) =>
                  /\ who_out' = <<WhoMessage(who_timestamp, Append(who_lines, text))>>
                  /\ who_lines' = <<>>
            /\ (who_lines = <<>> /\ ~IsWhoHeader(text)) =>
                  /\ who_lines' = <<>>
                  /\ who_out' = IF IsWhoNoMatch(text)
                                THEN <<WhoMessage(ts, <<text>>)>> ELSE <<>>]_vars

\* a block of a header and a player line was closed by a later line, and the
\* message carries the header's timestamp
C28_Witness ==
    /\ who_out # <<>>
    /\ Len(who_out[1].content) = 5
    /\ who_out[1].timestamp < who_last.timestamp
    /\ who_lines = <<>>

-----------------------------------------------------------------------------
(* The correlation window of cast-on-other messages *)

\* C29 as stated: a cast-on-other message correlates with the pending cast
\* only if the message's log timestamp minus the pending cast's log timestamp
\* is strictly less than the correlation window, the test cast-on-you makes;
\* at or beyond the boundary no timer is created and the pending cast stays.
C29_CastOnOtherWindow ==
    [][LET e == LogEntry(last_timestamp', res'.message) IN
          (/\ res'.message \in LandingMessages \ CastOnYouMessages
           /\ ProcessLogEntry(e)
           /\ pending_cast # <<>>)
          => /\ res'.matched_at > 0
                   => WithinCastWindow(e.timestamp - pending_cast[1].log_timestamp)
             /\ ~WithinCastWindow(e.timestamp - pending_cast[1].log_timestamp)
                   => (timers' = timers /\ pending_cast' = pending_cast)
      ]_vars

-----------------------------------------------------------------------------
(* Timers on other targets: the panel on a log of casts and of messages      *)
(* that end with a cast-on-other suffix, with and without a target before it *)

\* <<"t", "s">> is the bare suffix of A, <<" ", "t", "s">> has a space before it
OtherMessages ==
    { Msg("cast_failure", "", <<>>),
      Msg("casting", "Z", <<>>), Msg("casting", "A", <<>>), Msg("casting", "Q", <<>>),
      Msg("other", "", <<"y">>), Msg("other", "", <<"q">>),
      Msg("other", "", <<"b", "s">>), Msg("other", "", <<"b", "t", "s">>),
      Msg("other", "", <<"t", "s">>), Msg("other", "", <<" ", "t", "s">>) }

NextOther ==
    \/ \E ts \in 0..MaxTime, m \in OtherMessages : ProcessLogEntry(LogEntry(ts, m))
    \/ Tick

SpecOther == Init /\ [][NextOther]_vars

\* the messages _check_cast_on_other is called with
ReachesCastOnOther(m) ==
    /\ m.kind = "other"
    /\ FindByFades(m.text) = <<>>
    /\ FindByCastOnYou(m.text) = <<>>

\* the message is a target followed by a cast-on-other suffix of the spell
LandsOnOther(text, spell_name, target) ==
    \E i \in 1..Len(ValidSpells) :
        LET s == ValidSpells[i] IN
        /\ s.name = spell_name
        /\ s.cast_on_other # <<>>
        /\ EndsWith(text, s.cast_on_other)
        /\ target = SubSeq(text, 1, Len(text) - Len(s.cast_on_other))
        /\ target # <<>>
        /\ target[1] # " "

\* C30: each timer whose target is not "You" is created by a cast-on-other
\* message processed while a pending cast existed whose spell name matched a
\* candidate of a suffix the message ends with, with a non-empty target
\* prefix that does not start with a space; with no pending cast a
\* cast-on-other message changes neither the registry nor the pending slot.
C30_OtherTimersFromCorrelatedCasts ==
    [][LET e == LogEntry(last_timestamp', res'.message) IN
          /\ \A k \in DOMAIN timers' :
                (k[2] # You /\ (k \notin DOMAIN timers \/ timers'[k] # timers[k]))
                => /\ ProcessLogEntry(e)
                   /\ ReachesCastOnOther(e.message)
                   /\ pending_cast # <<>>
                   /\ k[1] = pending_cast[1].spell_name
                   /\ LandsOnOther(e.message.text, pending_cast[1].spell_name, k[2])
          /\ (ProcessLogEntry(e) /\ ReachesCastOnOther(e.message) /\ pending_cast = <<>>)
                => (timers' = timers /\ pending_cast' = <<>>)
      ]_vars

\* a cast of A was pending and the message put a timer for A on the target b
C30_Witness ==
    /\ ReachesCastOnOther(res.message)
    /\ res.matched_at > 0
    /\ res.timer # <<>>
    /\ res.timer[1].target = <<"b">>
    /\ <<"A", <<"b">>>> \in DOMAIN timers
    /\ pending_cast = <<>>

-----------------------------------------------------------------------------
(* Instant-cast items *)

\* C31: on an item-glow entry with no pending cast, a pending cast is
\* synthesised if and only if a learned item-to-spell mapping exists for that
\* item, and it then carries the learned spell name, the entry's log timestamp
\* and the item attached; with a pending cast already present no new pending
\* cast is synthesised and the existing one keeps its spell name and start
\* times.
C31_InstantItemPendingCast ==
    [][LET e == LogEntry(last_timestamp', res'.message) IN
          (/\ res'.message.kind = "item_glow"
           /\ ProcessLogEntry(e))
          => /\ pending_cast = <<>> =>
                   /\ pending_cast' # <<>> <=> learned_items[e.message.name] # ""
                   /\ pending_cast' # <<>> =>
                         /\ pending_cast'[1].spell_name = learned_items[e.message.name]
                         /\ pending_cast'[1].log_timestamp = e.timestamp
                         /\ pending_cast'[1].item_name = e.message.name
             /\ pending_cast # <<>> =>
                   /\ pending_cast' # <<>>
                   /\ pending_cast'[1].spell_name = pending_cast[1].spell_name
                   /\ pending_cast'[1].cast_time = pending_cast[1].cast_time
                   /\ pending_cast'[1].log_timestamp = pending_cast[1].log_timestamp
      ]_vars

\* no cast was pending, the item's spell was known, and the glow made a
\* pending cast for it with the item attached
C31_Witness ==
    /\ res.message.kind = "item_glow"
    /\ res.prev_item = ""
    /\ ~res.attached
    /\ pending_cast # <<>>
    /\ pending_cast[1].item_name = "I1"
    /\ pending_cast[1].spell_name = learned_items["I1"]
    /\ pending_cast[1].log_timestamp = last_timestamp

-----------------------------------------------------------------------------
(* TimerManager.check_expired *)

\* C32: after check_expired runs at time now, the registry holds no timer
\* whose end time is at or before now, the returned list is exactly the set of
\* timers removed, and every timer whose end time is after now is still
\* present and unchanged.
C32_ExpiryCheck ==
    [][(RegCheckExpired /\ reg_op'.op = "check_expired") =>
          LET returned == reg_op'.timer IN
          /\ \A k \in DOMAIN timers' : timers'[k].end_time > now
          /\ {returned[i] : i \in 1..Len(returned)}
                = {timers[k] : k \in DOMAIN timers \ DOMAIN timers'}
          /\ \A i, j \in 1..Len(returned) : returned[i] = returned[j] => i = j
          /\ \A k \in DOMAIN timers :
                timers[k].end_time > now => (k \in DOMAIN timers' /\ timers'[k] = timers[k])
      ]_vars

\* the call returned a timer that ended at this very instant and kept another
C32_Witness ==
    /\ reg_op.op = "check_expired"
    /\ Len(reg_op.timer) = 1
    /\ reg_op.timer[1].end_time = now
    /\ DOMAIN timers # {}

-----------------------------------------------------------------------------
(* LogWatcher._process_line from the raw line on: parse_line, the entry       *)
(* callbacks (the timer panel), parse_chat_message and parse_who.             *)

MaxRead == 3         \* lines read from the log

\* what the three consumers see of one message: the panel (msg), the chat
\* classification (chat) and parse_who (text)
Body(msg, chat, text) == [msg |-> msg, chat |-> chat, text |-> text]

NotChat == ChatLine("other", "", "", <<"hi">>, 0, 0, 0)

Bodies ==
    { Body(Msg("casting", "A", <<>>), NotChat, "You begin casting A."),
      Body(Msg("item_glow", "I1", <<>>), NotChat, "Your I1 begins to glow."),
      Body(Msg("other", "", <<"y">>), NotChat, "y"),
      Body(DamageMsg("your_damage", "", "orc", 1, <<>>), NotChat, "You slash orc for 1 point of damage."),
      Body(Msg("other", "", <<"q">>), ChatLine("roller", "Bob", "", <<>>, 0, 0, 0),
           "**A Magic Die is rolled by Bob."),
      Body(Msg("other", "", <<"q">>), ChatLine("result", "", "", <<>>, 0, 2, 1),
           "**It could have been any number from 0 to 2, but this time it turned up a 1."),
      Body(Msg("other", "", <<"q">>), NotChat, WhoHeaderText),
      Body(Msg("other", "", <<"q">>), NotChat, WhoTotalText) }

\* a raw line: envelope says whether TIMESTAMP_PATTERN matches the stripped
\* line, date_ok whether strptime accepts the bracketed text
RawLine(envelope, date_ok, timestamp, body) ==
    [envelope |-> envelope, date_ok |-> date_ok, timestamp |-> timestamp, body |-> body]

RawLines ==
    {RawLine(TRUE, TRUE, 0, b) : b \in Bodies}
    \cup {RawLine(TRUE, FALSE, 0, b) : b \in Bodies}
    \cup {RawLine(FALSE, FALSE, 0, b) : b \in Bodies}

\* a parse_line that reads an unparseable date as the epoch
ParseLineLenient(raw) ==
    IF ~raw.envelope THEN <<>> ELSE <<[timestamp |-> raw.timestamp, body |-> raw.body]>>

\* LogParser.parse_line: <<>> is None
ParseLine(raw) ==
    IF ~raw.envelope THEN <<>>
    ELSE IF ~raw.date_ok THEN <<>>
    ELSE <<[timestamp |-> raw.timestamp, body |-> raw.body]>>

\* LogWatcher._process_line on the next line of the file
ProcessLine(raw) ==
    /\ watch_pos < MaxRead
    /\ watch_pos' = watch_pos + 1
    /\ UNCHANGED <<now, reg_op, scan_vars, qt_pc, count_vars, duration_vars,
                   log_size, replayed, watch_pc, running, stop_requested, cur_line,
                   classified, store_vars, replay_vars, catalog_vars, match_vars, ui_vars>>
    /\ IF ParseLine(raw) = <<>>
       THEN UNCHANGED <<timers, pending_cast, last_entry_was_cast, learned_items,
                        item_cast_times, disk_items, combat, last_timestamp, res,
                        ended_snapshots, parser_vars, who_vars, delivered>>
       ELSE
       LET entry == ParseLine(raw)[1]
           r == ProcessEntry(PanelState, LogEntry(entry.timestamp, entry.body.msg), now)
           c == ParseChatMessage([pending_roller |-> pending_roller,
                                  last_was_die_roll |-> last_was_die_roll],
                                 LogEntry(entry.timestamp, entry.body.chat))
           w == ParseWho(who_lines, who_timestamp, LogEntry(entry.timestamp, entry.body.text))
       IN /\ last_timestamp' = entry.timestamp
          /\ delivered' = Append(delivered, watch_pos + 1)
          /\ pending_cast' = r.pending_cast
          /\ last_entry_was_cast' = r.last_entry_was_cast
          /\ timers' = r.timers
          /\ learned_items' = r.learned_items
          /\ item_cast_times' = r.item_cast_times
          /\ disk_items' = r.disk_items
          /\ combat' = r.combat
          /\ res' = r.res
          /\ ended_snapshots' =
                IF ~combat.active /\ r.combat.active THEN 0
                ELSE IF r.res.dps # <<>> /\ r.res.dps[1].ended THEN ended_snapshots + 1
                ELSE ended_snapshots
          /\ pending_roller' = c.pending_roller
          /\ last_was_die_roll' = c.last_was_die_roll
          /\ chat_last' = LogEntry(entry.timestamp, entry.body.chat)
          /\ chat_out' = c.out
          /\ IF c.out # <<>>
             THEN UNCHANGED who_vars
             ELSE /\ who_last' = LogEntry(entry.timestamp, entry.body.text)
                  /\ who_lines' = w.who_lines
                  /\ who_timestamp' = w.who_timestamp
                  /\ who_out' = w.out

NextLine == \E raw \in RawLines : ProcessLine(raw)

SpecLine == Init /\ [][NextLine]_vars

\* C33: a line that does not match the timestamp envelope, or whose date does
\* not parse, yields no entry and changes no state: the pending cast, the
\* cast-adjacency flag, the roll-pending flag, the /who buffer, the timer
\* registry and the combat session are the same after it as before (as is
\* everything else the handlers read), so the next line is processed as if
\* the line had not been there.
C33_UnparseableLineIgnored ==
    [][\A raw \in RawLines :
          (ProcessLine(raw) /\ (~raw.envelope \/ ~raw.date_ok)) =>
             /\ delivered' = delivered
             /\ UNCHANGED <<pending_cast, last_entry_was_cast, pending_roller,
                            last_was_die_roll, who_lines, who_timestamp, timers, combat>>
             /\ UNCHANGED <<learned_items, item_cast_times, disk_items, last_timestamp>>
      ]_vars

\* a cast begin, an unparseable line, then an item glow: the item was attached
\* to the cast as if the two had been adjacent
C33_Witness ==
    /\ delivered = <<1, 3>>
    /\ res.message.kind = "item_glow"
    /\ res.attached
    /\ pending_cast # <<>>
    /\ pending_cast[1].item_name = "I1"

-----------------------------------------------------------------------------
(* The time-bounded scans: what they return, and whether they return *)

\* C34: for every log file and cutoff, every entry returned by
\* load_raw_history (and every message of load_chat_history_since, which scans
\* and reads the same way) has a timestamp at or after the cutoff, and the
\* returned sequence is a subsequence of the file's lines in file order with
\* no line returned twice.
C34_ScanSoundness ==
    scan_pc = "done" =>
        /\ \A i \in 1..Len(entries) :
              /\ entries[i].timestamp >= cutoff
              /\ entries[i].line \in 1..Len(file)
              /\ file[entries[i].line].ts = entries[i].timestamp
        /\ \A i, j \in 1..Len(entries) : i < j => entries[i].line < entries[j].line

\* the scan stopped inside the file, skipped lines before the cutoff and
\* returned a later line
C34_Witness ==
    /\ scan_pc = "done"
    /\ start_read_pos > 0
    /\ Len(entries) >= 1
    /\ \E i \in 1..Len(file) : file[i].ts # -1 /\ file[i].ts < cutoff

\* the first whole line of the chunk that ends at end_pos
ChunkStart ==
    IF Max(0, end_pos - chunk_size) > 0
    THEN AfterReadline(file, Max(0, end_pos - chunk_size))
    ELSE 0

\* C35 as stated: for every file content and every chunk size, including
\* files with a line as long as or longer than the chunk, the backward chunk
\* loop terminates: on every iteration either the stop condition holds or the
\* chunk end position strictly decreases.
C35_ScannerTermination ==
    (scan_pc = "back" /\ end_pos > 0) =>
        \/ /\ ParseLineAt(file, ChunkStart) # <<>>
           /\ ParseLineAt(file, ChunkStart)[1].timestamp < cutoff
        \/ ChunkStart < end_pos

-----------------------------------------------------------------------------
(* load_history with the periods in which the timers did not run: gaps of    *)
(* the log (find_logout_periods) and loading screens (find_zone_periods).     *)
(* Time is counted back from the wall clock of the call, which is 0; the gap  *)
(* that counts as a logout is scaled down with the durations.                 *)

MaxAge == 4          \* the log timestamps run over -MaxAge..0
LogoutGap == 2       \* a gap of more than this between two entries is a logout

\* LogParser.is_loading
IsLoading(m) == m.kind = "loading"

PauseMessages == { Msg("loading", "", <<>>), Msg("other", "", <<"y">>), Msg("other", "", <<"q">>) }

TimePeriod(start, end) == [start |-> start, end |-> end]

\* TimePeriod.time_after
TimeAfter(p, dt) ==
    IF dt >= p.end THEN 0
    ELSE IF dt <= p.start THEN p.end - p.start
    ELSE p.end - dt

\* LogWatcher.find_logout_periods
FindLogoutPeriods(es) ==
    LET at == {i \in 2..Len(es) : es[i].timestamp - es[i - 1].timestamp > LogoutGap}
    IN {TimePeriod(es[i - 1].timestamp, es[i].timestamp) : i \in at}

\* LogWatcher.find_zone_periods: a period runs from the first loading entry of
\* a run of loading entries to the first entry after the run
FindZonePeriods(es) ==
    LET starts == {i \in 1..Len(es) :
                     IsLoading(es[i].message) /\ (i = 1 \/ ~IsLoading(es[i - 1].message))}
        closed == {i \in starts : \E j \in (i + 1)..Len(es) : ~IsLoading(es[j].message)}
        EndOf(i) == CHOOSE j \in (i + 1)..Len(es) :
                       /\ ~IsLoading(es[j].message)
                       /\ \A k \in (i + 1)..(j - 1) : IsLoading(es[k].message)
    IN {TimePeriod(es[i].timestamp, es[EndOf(i)].timestamp) : i \in closed}

RECURSIVE SumTimeAfter(_, _)
\* sum(p.time_after(cast_time) for p in periods)
SumTimeAfter(periods, dt) ==
    IF periods = {} THEN 0
    ELSE LET p == CHOOSE q \in periods : TRUE
         IN TimeAfter(p, dt) + SumTimeAfter(periods \ {p}, dt)

\* paused, as "Create timers from history" computes it
Paused(es, cast_time) ==
    SumTimeAfter(FindLogoutPeriods(es), cast_time) + SumTimeAfter(FindZonePeriods(es), cast_time)

\* "Create timers from history" with the periods of the log
HistoryTimersPaused(active, clock, es) ==
    LET Remaining(k) == GetDurationSeconds(active[k].spell, Level)
                           - ((clock - active[k].cast_time) - Paused(es, active[k].cast_time))
        live == {k \in DOMAIN active : Remaining(k) > 0}
    IN [k \in live |->
          ActiveTimer(active[k].spell.name, k[2], clock + Remaining(k),
                      GetDurationSeconds(active[k].spell, Level),
                      LandingCategory(active[k].is_self))]

\* TimerPanel.load_history on the entries of the log
LoadHistoryPaused ==
    /\ history_timers = <<>>
    /\ history_timers' =
          <<HistoryTimersPaused(HistoryLoop(NoHistory, replay_log, 1, learned_items).active,
                                now, replay_log)>>
    /\ UNCHANGED <<replay_log, replay_pos>>
    /\ ReplayFrame

NextPause == LoadHistoryPaused

\* the entries load_raw_history returned: timestamps do not go back
InitPause ==
    /\ InitRest
    /\ InitWatchIdle /\ InitStoreIdle /\ InitCatalogIdle /\ InitMatchIdle /\ InitUiIdle /\ InitWhoIdle
    /\ replay_log \in UNION {[1..n -> {LogEntry(ts, m) : ts \in (0 - MaxAge)..0,
                                                       m \in PauseMessages}] :
                                n \in 0..MaxReplay}
    /\ \A i \in 2..Len(replay_log) : replay_log[i].timestamp >= replay_log[i - 1].timestamp
    /\ replay_pos = 0
    /\ history_timers = <<>>

SpecPause == InitPause /\ [][NextPause]_vars

\* C36 as stated: for every timer rebuilt from history the paused time
\* credited never exceeds the wall-clock time elapsed since the cast, so the
\* rebuilt remaining time never exceeds the timer's total duration; also when
\* a loading interval and a logout gap cover the same span of time.
C36_PausedTimeBounded ==
    history_timers # <<>> =>
        /\ \A k \in DOMAIN history_timers[1] :
              history_timers[1][k].end_time - now <= history_timers[1][k].total_duration
        /\ LET active == HistoryLoop(NoHistory, replay_log, 1, learned_items).active
           IN \A k \in DOMAIN active :
                 Paused(replay_log, active[k].cast_time) <= now - active[k].cast_time

-----------------------------------------------------------------------------
(* The cast-time histograms of the learned-items file *)

\* the count of a histogram for a cast time, 0 when it has none
CountAt(hist, ms) == IF ms \in DOMAIN hist THEN hist[ms] ELSE 0

\* C37 as stated: the occurrence count stored on disk for an (item, cast-time)
\* pair grows by exactly one for each correlated cast observed with that
\* rounded cast time and by nothing else; a save performed with no new
\* observation (the save triggered by learning a spell name, the save on
\* close) leaves every count unchanged.
C37_HistogramCountsObservations ==
    [][\A it \in Items :
          LET old == disk_items[it].cast_times_ms
              new == disk_items'[it].cast_times_ms
              observed(ms) ==
                  /\ ProcessLogEntry(LogEntry(last_timestamp', res'.message))
                  /\ res'.prev_item = it
                  /\ res'.is_self_cast \/ res'.matched_at > 0
                  /\ (now - pending_cast[1].cast_time) * 1000 = ms
          IN \A ms \in DOMAIN old \cup DOMAIN new :
                CountAt(new, ms) - CountAt(old, ms) = IF observed(ms) THEN 1 ELSE 0
      ]_vars

-----------------------------------------------------------------------------
(* Everything that takes timers out of the registry: fade and worn-off       *)
(* entries, death, expiry at the periodic update, the context menu, and the  *)
(* switch to another character.                                               *)

MaxFadeClock == 6    \* the wall clock runs over 0..MaxFadeClock

FadeMessages ==
    { Msg("death", "", <<>>), Msg("casting", "A", <<>>),
      Msg("other", "", <<"y">>), Msg("other", "", <<"b", "t", "s">>),
      Msg("other", "", <<"f">>), Msg("worn_off", "A", <<>>),
      DamageMsg("your_damage", "", "orc", 1, <<>>) }

\* the wall clock advances by the duration of a buff
FadeClock ==
    /\ now + 6 <= MaxFadeClock
    /\ now' = now + 6
    /\ UNCHANGED <<timers, reg_op, pending_cast, last_entry_was_cast, learned_items,
                   item_cast_times, disk_items, combat, last_timestamp, res,
                   parser_vars, scan_vars, qt_vars, count_vars, duration_vars, ext_vars>>

\* check_character_change: timer_panel._timer_mgr.clear(), then the history
\* of the other character's log, which holds no buff here
CharacterChange ==
    /\ qt_pc = "idle"
    /\ timers # EmptyRegistry
    /\ timers' = TimerClear(timers)
    /\ UNCHANGED <<reg_op, panel_vars, parser_vars, scan_vars, qt_vars, count_vars,
                   duration_vars, ext_vars>>

NextFade ==
    \/ \E m \in FadeMessages :
          /\ (m.kind \in DamageKinds /\ combat.active) => DamageOf(combat, "You") < MaxDamage
          /\ ProcessLogEntry(LogEntry(now, m))
    \/ OnUpdate
    \/ ContextMenuClear
    \/ CharacterChange
    \/ FadeClock

SpecFade == Init /\ [][NextFade]_vars

\* the spells a fade or worn-off message names
NamedBy(m) ==
    IF m.kind = "worn_off" THEN {m.name}
    ELSE {ValidSpells[i].name : i \in {j \in 1..Len(ValidSpells) :
                                          /\ ValidSpells[j].spell_fades # <<>>
                                          /\ ValidSpells[j].spell_fades = m.text}}

\* the entry is handled by the spell-fades or the worn-off branch
IsFadeOrWornOff(m) ==
    \/ m.kind = "worn_off"
    \/ m.kind = "other" /\ NamedBy(m) # {}

\* C38: processing a spell-fades or worn-off entry removes at most the timers
\* keyed (spell, "You") for the spells named by that message and leaves every
\* timer on another target, the pending cast and the combat session
\* unchanged; a timer on another target leaves the registry only through
\* expiry or a clear (death, manual clear, change of character).
C38_FadeTouchesOnlyYou ==
    [][LET e == LogEntry(last_timestamp', res'.message)
           gone == DOMAIN timers \ DOMAIN timers'
       IN /\ (ProcessLogEntry(e) /\ IsFadeOrWornOff(e.message)) =>
                /\ DOMAIN timers' \subseteq DOMAIN timers
                /\ \A k \in DOMAIN timers' : timers'[k] = timers[k]
                /\ \A k \in gone : k[2] = You /\ k[1] \in NamedBy(e.message)
                /\ pending_cast' = pending_cast
                /\ combat' = combat
          /\ \A k \in gone :
                k[2] # You =>
                   \/ OnUpdate /\ timers[k].end_time <= now
                   \/ timers' = EmptyRegistry /\ ContextMenuClear
                   \/ timers' = EmptyRegistry /\ CharacterChange
                   \/ timers' = EmptyRegistry /\ ProcessLogEntry(e) /\ IsDeath(e.message)
      ]_vars

\* with a timer for A on You and one on b, a worn-off entry for A took the
\* one on You; a cast is pending and a fight is on
C38_Witness ==
    /\ res.message.kind = "worn_off"
    /\ <<"A", <<"b">>>> \in DOMAIN timers
    /\ <<"A", You>> \notin DOMAIN timers
    /\ pending_cast # <<>>
    /\ combat.active

-----------------------------------------------------------------------------
(* The watcher thread and the GUI thread.  main() starts watcher.watch in a  *)
(* daemon thread; _process_line calls TimerPanel._process_log_entry on that  *)
(* thread, while the QTimer runs _on_update on the GUI thread.  Neither the  *)
(* registry nor the pending cast is guarded by a lock, so the interpreter    *)
(* may switch threads between any two statements of _on_update.  The model   *)
(* follows _on_update statement by statement up to its first exception.      *)

RaceMessages ==
    { Msg("casting", "A", <<>>), Msg("other", "", <<"y">>),
      Msg("other", "", <<"b", "t", "s">>), Msg("other", "", <<"f">>) }

UiFrame ==
    UNCHANGED <<reg_op, panel_vars, parser_vars, scan_vars, qt_vars, count_vars,
                duration_vars, watch_vars, store_vars, replay_vars, catalog_vars,
                match_vars, who_vars>>

\* _on_update, line 204: "if self._pending_cast:"
UiTestPending ==
    /\ ui_pc = "idle"
    /\ ui_error = ""
    /\ ui_pc' = IF pending_cast # <<>> THEN "spell_name" ELSE "check_expired"
    /\ UNCHANGED <<timers, ui_keys, ui_left, ui_to_remove, ui_error>>
    /\ UiFrame

\* a read of self._pending_cast.<field>: AttributeError when it is None
UiReadField(at, then) ==
    /\ ui_pc = at
    /\ IF pending_cast = <<>>
       THEN ui_error' = "AttributeError" /\ ui_pc' = "idle"
       ELSE ui_error' = ui_error /\ ui_pc' = then
    /\ UNCHANGED <<timers, ui_keys, ui_left, ui_to_remove>>
    /\ UiFrame

\* _on_update, line 205: "spell_name = self._pending_cast.spell_name"
UiReadSpellName == UiReadField("spell_name", "item_name")

\* _on_update, lines 206-220: "item_name = self._pending_cast.item_name";
\* cast_time_ms comes from the learned item or from the spell file, and
\* self._pending_cast.cast_time is read when it is positive
UiReadItemName ==
    \E positive \in BOOLEAN :
       UiReadField("item_name", IF positive THEN "cast_time" ELSE "check_expired")

\* _on_update, line 216: "datetime.now() - self._pending_cast.cast_time"
UiReadCastTime == UiReadField("cast_time", "check_expired")

\* check_expired, line 80: "for key, timer in self._timers.items()" begins
UiBeginIteration ==
    /\ ui_pc = "check_expired"
    /\ ui_pc' = "iterating"
    /\ ui_keys' = DOMAIN timers
    /\ ui_left' = DOMAIN timers
    /\ ui_to_remove' = {}
    /\ UNCHANGED <<timers, ui_error>>
    /\ UiFrame

\* check_expired, lines 80-83: the iterator yields the next item, or raises
\* RuntimeError("dictionary changed size during iteration"), or is exhausted
UiIterate ==
    /\ ui_pc = "iterating"
    /\ IF Cardinality(DOMAIN timers) # Cardinality(ui_keys)
       THEN /\ ui_error' = "RuntimeError"
            /\ ui_pc' = "idle"
            /\ UNCHANGED <<ui_left, ui_to_remove>>
       ELSE IF ui_left \cap DOMAIN timers = {}
       THEN /\ ui_pc' = "deleting"
            /\ UNCHANGED <<ui_left, ui_to_remove, ui_error>>
       ELSE \E k \in ui_left \cap DOMAIN timers :
               /\ ui_left' = ui_left \ {k}
               /\ ui_to_remove' = IF IsExpired(timers[k], now)
                                  THEN ui_to_remove \cup {k} ELSE ui_to_remove
               /\ UNCHANGED <<ui_pc, ui_error>>
    /\ UNCHANGED <<timers, ui_keys>>
    /\ UiFrame

\* check_expired, lines 85-86: "del self._timers[key]", KeyError when the
\* key is gone; then _refresh_timers and the end of _on_update
UiDelete ==
    /\ ui_pc = "deleting"
    /\ IF ui_to_remove = {}
       THEN /\ ui_pc' = "idle"
            /\ UNCHANGED <<timers, ui_to_remove, ui_error>>
       ELSE \E k \in ui_to_remove :
               /\ ui_to_remove' = ui_to_remove \ {k}
               /\ IF k \in DOMAIN timers
                  THEN /\ timers' = [x \in DOMAIN timers \ {k} |-> timers[x]]
                       /\ UNCHANGED <<ui_pc, ui_error>>
                  ELSE /\ ui_error' = "KeyError"
                       /\ ui_pc' = "idle"
                       /\ timers' = timers
    /\ UNCHANGED <<ui_keys, ui_left>>
    /\ UiFrame

GuiThread ==
    \/ UiTestPending
    \/ UiReadSpellName
    \/ UiReadItemName
    \/ UiReadCastTime
    \/ UiBeginIteration
    \/ UiIterate
    \/ UiDelete

NextRace ==
    \/ \E m \in RaceMessages : ProcessLogEntry(LogEntry(now, m))
    \/ GuiThread
    \/ FadeClock

SpecRace == Init /\ [][NextRace]_vars

\* C39: registry access is race-free: while check_expired iterates over the
\* registry its key set is the one the iteration began with, and whenever
\* the periodic update is about to read a field of the pending cast, the
\* pending cast is there.
C39_RegistryAccessRaceFree ==
    /\ ui_pc = "iterating" => DOMAIN timers = ui_keys
    /\ ui_pc \in {"spell_name", "item_name", "cast_time"} => pending_cast # <<>>

\* C40: continuity across the handoff: once the history backfill has read the
\* file and the live tail has taken its position, every line the tail has
\* behind it was delivered by the backfill or by the tail (or is the line in
\* the pipeline); so is a line appended after the backfill read to the end
\* of the file and before watch() positioned itself at the end.
C40_HandoffContinuity ==
    (replayed # {} /\ watch_pc \notin {"idle", "started", "open"}) =>
        \A l \in 1..watch_pos : l \in replayed \cup LinesOf(delivered) \cup {cur_line}

====
